---- MODULE Spec2Model ----
(***************************************************************************)
(* A model of the rgssad crate: the rotating-key cipher, the sans-I/O      *)
(* Reader / Writer (format 1) and Reader3 / Writer3 (format 3) state       *)
(* machines, and the blocking Reader of reader.rs.                         *)
(*                                                                         *)
(* A u32 is a tuple of its four little-endian bytes (to_le_bytes order):   *)
(* TLC's integers are 32-bit signed, and the keys need all 32 bits.        *)
(***************************************************************************)
EXTENDS Integers, Sequences, FiniteSets, TLC

VARIABLES
    mode,     \* which machine the driver runs
    stream,   \* the bytes of the transport (the archive)
    tpos,     \* the transport's position
    wr,       \* sans_io::Writer
    rd,       \* sans_io::Reader
    wr3,      \* sans_io::Writer3
    rd3,      \* sans_io::Reader3
    brd,      \* the blocking Reader of reader.rs, and the Entry it handed out
    op,       \* the last operation the driver called
    ret,      \* what that operation returned
    log,      \* the results returned so far (headers, data, errors)
    input,    \* what the driver was asked to write
    ciph      \* the cipher harness

vars == <<mode, stream, tpos, wr, rd, wr3, rd3, brd, op, ret, log, input, ciph>>

----------------------------------------------------------------------------
(* Bounds of the model *)

\* the longest byte sequence put through the file-data cipher
MaxCipherLen == 6
\* the most entries of an archive
MaxEntries == 2
\* the most bytes a driver hands over in one partial read, write or data call
MaxChunk == 2

----------------------------------------------------------------------------
(* Bytes and 32-bit words *)

Byte == 0..255

RECURSIVE Xor(_, _)
\* a ^ b on bytes
Xor(a, b) ==
    IF a = 0 THEN b
    ELSE IF b = 0 THEN a
    ELSE ((a + b) % 2) + 2 * Xor(a \div 2, b \div 2)

\* a ^ b on u32
U32Xor(a, b) == <<Xor(a[1], b[1]), Xor(a[2], b[2]), Xor(a[3], b[3]), Xor(a[4], b[4])>>

\* u32::from(n), for n < 2^31
U32(n) == <<n % 256, (n \div 256) % 256, (n \div 65536) % 256, (n \div 16777216) % 256>>

\* n as a number, for n < 2^31
ToNat(n) == n[1] + 256 * n[2] + 65536 * n[3] + 16777216 * n[4]

\* n > m, for a u32 n and a number m < 2^31
U32Gt(n, m) == IF n[4] >= 128 THEN TRUE ELSE ToNat(n) > m

\* key.overflowing_mul(m).0.overflowing_add(a).0
MulAdd(key, m, a) ==
    LET t1 == key[1] * m + a
        t2 == key[2] * m + (t1 \div 256)
        t3 == key[3] * m + (t2 \div 256)
        t4 == key[4] * m + (t3 \div 256)
    IN  <<t1 % 256, t2 % 256, t3 % 256, t4 % 256>>

RotateKeyDropCarry(key) ==
    <<(key[1] * 7 + 3) % 256, (key[2] * 7) % 256, (key[3] * 7) % 256, (key[4] * 7) % 256>>

\* key = key * 7 + 3 (wrapping), the rotation of the format-1 key
RotateKey(key) == MulAdd(key, 7, 3)

RECURSIVE RotateN(_, _)
\* the key rotated n times
RotateN(key, n) == IF n = 0 THEN key ELSE RotateN(RotateKey(key), n - 1)

MAGIC == <<82, 71, 83, 83, 65, 68, 0>>
MAGIC_LEN == 7
VERSION == 1
HEADER_LEN == MAGIC_LEN + 1
DEFAULT_KEY == <<254, 202, 173, 222>>
MAX_FILE_NAME_LEN == 4096
U32_LEN == 4
DEFAULT_BUFFER_CAPACITY == 10240

\* a[from+1 .. from+len] (0-based from, like a Rust slice a[from..from+len])
Slice(a, from, len) == SubSeq(a, from + 1, from + len)

Min(a, b) == IF a < b THEN a ELSE b

RECURSIVE SeqsUpTo(_, _)
\* the sequences over S of length at most n
SeqsUpTo(S, n) ==
    IF n = 0 THEN {<<>>}
    ELSE LET shorter == SeqsUpTo(S, n - 1)
         IN  shorter \cup {Append(s, x) : s \in {t \in shorter : Len(t) = n - 1}, x \in S}

----------------------------------------------------------------------------
(* The file-data cipher *)

\* the cipher with the counter restarted at every call
DecryptRestartCounter(buffer, key, counter) ==
    LET RECURSIVE go(_, _, _)
        go(b, k, c) ==
            IF b = <<>> THEN [buffer |-> <<>>, key |-> k, counter |-> c]
            ELSE LET rest == go(Tail(b), IF c = 3 THEN RotateKey(k) ELSE k, (c + 1) % 4)
                 IN  [rest EXCEPT !.buffer = <<Xor(Head(b), k[c + 1])>> \o @]
    IN  go(buffer, key, 0)

RECURSIVE decrypt_file_data_bytes(_, _, _)
\* sans_io/reader.rs: each byte ^= key.to_le_bytes()[counter]; the key rotates
\* when the counter is 3; counter = (counter + 1) % 4
decrypt_file_data_bytes(buffer, key, counter) ==
    IF buffer = <<>> THEN [buffer |-> <<>>, key |-> key, counter |-> counter]
    ELSE LET byte == Xor(Head(buffer), key[counter + 1])
             key2 == IF counter = 3 THEN RotateKey(key) ELSE key
             rest == decrypt_file_data_bytes(Tail(buffer), key2, (counter + 1) % 4)
         IN  [rest EXCEPT !.buffer = <<byte>> \o @]

RECURSIVE decrypt_entry_bytes(_, _, _)
\* reader.rs: the same cipher, for the blocking Entry
decrypt_entry_bytes(buffer, key, counter) ==
    IF buffer = <<>> THEN [buffer |-> <<>>, key |-> key, counter |-> counter]
    ELSE LET byte == Xor(Head(buffer), key[counter + 1])
             key2 == IF counter = 3 THEN RotateKey(key) ELSE key
             rest == decrypt_entry_bytes(Tail(buffer), key2, (counter + 1) % 4)
         IN  [rest EXCEPT !.buffer = <<byte>> \o @]

----------------------------------------------------------------------------
(* The rotating-key cipher of the headers *)

\* lib.rs crypt_u32 / sans_io/reader.rs decrypt_u32: n ^= key, then the key rotates
crypt_u32(key, n) == [n |-> U32Xor(n, key), key |-> RotateKey(key)]

decrypt_u32_no_rotate(key, n) == [n |-> U32Xor(n, key), key |-> key]

decrypt_u32(key, n) == [n |-> U32Xor(n, key), key |-> RotateKey(key)]

RECURSIVE crypt_name_bytes(_, _)
\* lib.rs crypt_name_bytes: each byte ^= key & 0xFF, then the key rotates
crypt_name_bytes(key, bytes) ==
    IF bytes = <<>> THEN [bytes |-> <<>>, key |-> key]
    ELSE LET rest == crypt_name_bytes(RotateKey(key), Tail(bytes))
         IN  [rest EXCEPT !.bytes = <<Xor(Head(bytes), key[1])>> \o @]

RECURSIVE crypt_file_data(_, _, _)
\* crate::crypt_file_data(key, counter, buffer): the file-data cipher the writers
\* call; the function itself is not among the sources
crypt_file_data(key, counter, buffer) ==
    IF buffer = <<>> THEN [buffer |-> <<>>, key |-> key, counter |-> counter]
    ELSE LET byte == Xor(Head(buffer), key[counter + 1])
             key2 == IF counter = 3 THEN RotateKey(key) ELSE key
             rest == crypt_file_data(key2, (counter + 1) % 4, Tail(buffer))
         IN  [rest EXCEPT !.buffer = <<byte>> \o @]

\* String::from_utf8 accepts the bytes: well-formed UTF-8 (Unicode table 3-7)
RECURSIVE IsUtf8(_)
IsUtf8(b) ==
    LET cont(i) == i <= Len(b) /\ b[i] \in 128..191
        rest(n) == IsUtf8(SubSeq(b, n + 1, Len(b)))
    IN  IF b = <<>> THEN TRUE
        ELSE IF b[1] < 128 THEN rest(1)
        ELSE IF b[1] \in 194..223 THEN cont(2) /\ rest(2)
        ELSE IF b[1] = 224 THEN Len(b) >= 2 /\ b[2] \in 160..191 /\ cont(3) /\ rest(3)
        ELSE IF b[1] \in (225..236) \cup {238, 239} THEN cont(2) /\ cont(3) /\ rest(3)
        ELSE IF b[1] = 237 THEN Len(b) >= 2 /\ b[2] \in 128..159 /\ cont(3) /\ rest(3)
        ELSE IF b[1] = 240 THEN Len(b) >= 2 /\ b[2] \in 144..191 /\ cont(3) /\ cont(4) /\ rest(4)
        ELSE IF b[1] \in 241..243 THEN cont(2) /\ cont(3) /\ cont(4) /\ rest(4)
        ELSE IF b[1] = 244 THEN Len(b) >= 2 /\ b[2] \in 128..143 /\ cont(3) /\ cont(4) /\ rest(4)
        ELSE FALSE

----------------------------------------------------------------------------
(* Actions and results of the state machines *)

Done(v) == [type |-> "Done", value |-> v]
Read(n) == [type |-> "Read", n |-> n]
Seek(p) == [type |-> "Seek", position |-> p]
Write == [type |-> "Write"]
Err(e) == [type |-> "Err", error |-> e]
Panic(m) == [type |-> "Panic", message |-> m]

\* oval::Buffer::available_space, for a buffer that holds `buffer`
available_space(buffer) == DEFAULT_BUFFER_CAPACITY - Len(buffer)

----------------------------------------------------------------------------
(* sans_io::Writer (format 1) *)

Writer_new == [buffer |-> <<>>, key |-> DEFAULT_KEY, state |-> [tag |-> "Header"]]

\* step_write_header that stages the header whenever no entry is open
Writer_step_write_header_again(w) ==
    IF w.state.tag = "FileData" THEN [w |-> w, ret |-> Done("unit")]
    ELSE IF available_space(w.buffer) < HEADER_LEN THEN [w |-> w, ret |-> Write]
    ELSE [w |-> [w EXCEPT !.buffer = @ \o MAGIC \o <<VERSION>>,
                          !.state = [tag |-> "FileHeader"]],
          ret |-> Done("unit")]

Writer_step_write_header(w) ==
    IF w.state.tag # "Header" THEN [w |-> w, ret |-> Done("unit")]
    ELSE IF available_space(w.buffer) < HEADER_LEN THEN [w |-> w, ret |-> Write]
    ELSE [w |-> [w EXCEPT !.buffer = @ \o MAGIC \o <<VERSION>>,
                          !.state = [tag |-> "FileHeader"]],
          ret |-> Done("unit")]

Writer_step_write_file_header_no_snapshot(w, name, size) ==
    LET h == Writer_step_write_header(w)
        w1 == h.w
        name_len == Len(name)
        file_header_size == (U32_LEN * 2) + name_len
        c1 == crypt_u32(w1.key, U32(name_len))
        c2 == crypt_name_bytes(c1.key, name)
        c3 == crypt_u32(c2.key, U32(size))
    IN  IF w.state.tag = "Header" /\ h.ret.type # "Done" THEN h
        ELSE IF w1.state.tag = "FileData"
            THEN [w |-> w1, ret |-> Panic("not yet implemented: write_file_header -> State::FileData")]
        ELSE IF name_len > MAX_FILE_NAME_LEN
            THEN [w |-> w1, ret |-> Err([kind |-> "FileNameTooLongUsize", len |-> name_len])]
        ELSE IF available_space(w1.buffer) < file_header_size THEN [w |-> w1, ret |-> Write]
        ELSE [w |-> [w1 EXCEPT !.buffer = @ \o c1.n \o c2.bytes \o c3.n,
                               !.key = c3.key,
                               !.state = [tag |-> "FileData", key |-> w1.key, counter |-> 0,
                                          remaining |-> size]],
              ret |-> Done("unit")]

Writer_step_write_file_header(w, name, size) ==
    LET h == Writer_step_write_header(w)
        w1 == h.w
        name_len == Len(name)
        file_header_size == (U32_LEN * 2) + name_len
        c1 == crypt_u32(w1.key, U32(name_len))
        c2 == crypt_name_bytes(c1.key, name)
        c3 == crypt_u32(c2.key, U32(size))
    IN  IF w.state.tag = "Header" /\ h.ret.type # "Done" THEN h
        ELSE IF w1.state.tag = "FileData"
            THEN [w |-> w1, ret |-> Panic("not yet implemented: write_file_header -> State::FileData")]
        ELSE IF name_len > MAX_FILE_NAME_LEN
            THEN [w |-> w1, ret |-> Err([kind |-> "FileNameTooLongUsize", len |-> name_len])]
        ELSE IF available_space(w1.buffer) < file_header_size THEN [w |-> w1, ret |-> Write]
        ELSE [w |-> [w1 EXCEPT !.buffer = @ \o c1.n \o c2.bytes \o c3.n,
                               !.key = c3.key,
                               !.state = [tag |-> "FileData", key |-> c3.key, counter |-> 0,
                                          remaining |-> size]],
              ret |-> Done("unit")]

\* `bytes` are the size plaintext bytes the caller put at the start of space()
Writer_step_write_file_data(w, bytes) ==
    LET h == Writer_step_write_header(w)
        w1 == h.w
        size == Len(bytes)
        c == crypt_file_data(w1.state.key, w1.state.counter, bytes)
        remaining == w1.state.remaining - size
    IN  IF w.state.tag = "Header" /\ h.ret.type # "Done" THEN h
        ELSE IF w1.state.tag = "FileHeader"
            THEN [w |-> w1, ret |-> Panic("not yet implemented: step_write_file_data -> State::FileHeader")]
        ELSE IF size > available_space(w1.buffer)
            THEN [w |-> w1, ret |-> Panic("range end index out of range")]
        ELSE IF remaining < 0
            THEN [w |-> w1, ret |-> Panic("attempt to subtract with overflow")]
        ELSE [w |-> [w1 EXCEPT !.buffer = @ \o c.buffer,
                               !.state = IF remaining = 0 THEN [tag |-> "FileHeader"]
                                         ELSE [tag |-> "FileData", key |-> c.key,
                                               counter |-> c.counter, remaining |-> remaining]],
              ret |-> Done(size)]

\* Writer::consume(size), the bytes going to the transport
Writer_consume(w, size) == [w EXCEPT !.buffer = SubSeq(@, size + 1, Len(@))]

----------------------------------------------------------------------------
(* sans_io::Reader (format 1) *)

Reader_new ==
    [buffer |-> <<>>, state |-> [tag |-> "Header"], need_seek |-> FALSE, position |-> 0,
     next_file_position |-> 0, key |-> DEFAULT_KEY]

\* Reader::fill(num), with the bytes the driver wrote to space()
Reader_fill(r, bytes) == [r EXCEPT !.buffer = @ \o bytes]

\* the panic of finish_seek's assert
Reader_finish_seek_panics(r) == r.position = r.next_file_position

\* finish_seek that keeps the buffered look-ahead
Reader_finish_seek_keep_buffer(r) == [r EXCEPT !.position = r.next_file_position]

Reader_finish_seek(r) == [r EXCEPT !.position = r.next_file_position, !.buffer = <<>>]

Reader_step_read_header_version_first(r) ==
    LET data == r.buffer
        data_len == Len(data)
        magic == Slice(data, 0, MAGIC_LEN)
        version == data[MAGIC_LEN + 1]
    IN  IF r.state.tag # "Header" THEN [r |-> r, ret |-> Done("unit")]
        ELSE IF data_len < HEADER_LEN THEN [r |-> r, ret |-> Read(HEADER_LEN - data_len)]
        ELSE IF version # VERSION
            THEN [r |-> r, ret |-> Err([kind |-> "InvalidVersion", version |-> version])]
        ELSE IF magic # MAGIC
            THEN [r |-> r, ret |-> Err([kind |-> "InvalidMagic", magic |-> magic])]
        ELSE [r |-> [r EXCEPT !.buffer = SubSeq(@, HEADER_LEN + 1, Len(@)),
                              !.position = HEADER_LEN,
                              !.next_file_position = HEADER_LEN,
                              !.state = [tag |-> "FileHeader"]],
              ret |-> Done("unit")]

Reader_step_read_header_again(r) ==
    LET data == r.buffer
        data_len == Len(data)
    IN  IF data_len < HEADER_LEN THEN [r |-> r, ret |-> Read(HEADER_LEN - data_len)]
        ELSE [r |-> [r EXCEPT !.buffer = SubSeq(@, HEADER_LEN + 1, Len(@)),
                              !.position = HEADER_LEN,
                              !.next_file_position = HEADER_LEN,
                              !.state = [tag |-> "FileHeader"]],
              ret |-> Done("unit")]

Reader_step_read_header(r) ==
    LET data == r.buffer
        data_len == Len(data)
        magic == Slice(data, 0, MAGIC_LEN)
        version == data[MAGIC_LEN + 1]
    IN  IF r.state.tag # "Header" THEN [r |-> r, ret |-> Done("unit")]
        ELSE IF data_len < HEADER_LEN THEN [r |-> r, ret |-> Read(HEADER_LEN - data_len)]
        ELSE IF magic # MAGIC
            THEN [r |-> r, ret |-> Err([kind |-> "InvalidMagic", magic |-> magic])]
        ELSE IF version # VERSION
            THEN [r |-> r, ret |-> Err([kind |-> "InvalidVersion", version |-> version])]
        ELSE [r |-> [r EXCEPT !.buffer = SubSeq(@, HEADER_LEN + 1, Len(@)),
                              !.position = HEADER_LEN,
                              !.next_file_position = HEADER_LEN,
                              !.state = [tag |-> "FileHeader"]],
              ret |-> Done("unit")]

\* the header parse that checks the name length only once the name is buffered
Reader_parse_file_header_late_cap(r) ==
    LET data == r.buffer
        data_len == Len(data)
        d1 == decrypt_u32(r.key, Slice(data, 0, U32_LEN))
        file_name_len == ToNat(d1.n)
        file_header_size == (U32_LEN * 2) + file_name_len
        d2 == crypt_name_bytes(d1.key, Slice(data, U32_LEN, file_name_len))
        d3 == decrypt_u32(d2.key, Slice(data, U32_LEN + file_name_len, U32_LEN))
        file_data_len == ToNat(d3.n)
    IN  IF data_len < U32_LEN THEN [r |-> r, ret |-> Read(U32_LEN - data_len)]
        ELSE IF data_len < file_header_size
            THEN [r |-> r, ret |-> Read(file_header_size - data_len)]
        ELSE IF U32Gt(d1.n, MAX_FILE_NAME_LEN)
            THEN [r |-> r, ret |-> Err([kind |-> "FileNameTooLong", len |-> d1.n])]
        ELSE IF ~IsUtf8(d2.bytes) THEN [r |-> r, ret |-> Err([kind |-> "InvalidFileName"])]
        ELSE [r |-> [r EXCEPT !.buffer = SubSeq(@, file_header_size + 1, Len(@)),
                              !.position = @ + file_header_size,
                              !.next_file_position = @ + file_header_size + file_data_len,
                              !.key = d3.key,
                              !.need_seek = TRUE,
                              !.state = [tag |-> "FileData", key |-> d3.key, counter |-> 0,
                                         remaining |-> file_data_len]],
              ret |-> Done([name |-> d2.bytes, size |-> file_data_len])]

\* step_read_file_header once the loop has reached State::FileHeader
Reader_parse_file_header(r) ==
    LET data == r.buffer
        data_len == Len(data)
        d1 == decrypt_u32(r.key, Slice(data, 0, U32_LEN))
        file_name_len == ToNat(d1.n)
        file_header_size == (U32_LEN * 2) + file_name_len
        d2 == crypt_name_bytes(d1.key, Slice(data, U32_LEN, file_name_len))
        d3 == decrypt_u32(d2.key, Slice(data, U32_LEN + file_name_len, U32_LEN))
        file_data_len == ToNat(d3.n)
    IN  IF data_len < U32_LEN THEN [r |-> r, ret |-> Read(U32_LEN - data_len)]
        ELSE IF U32Gt(d1.n, MAX_FILE_NAME_LEN)
            THEN [r |-> r, ret |-> Err([kind |-> "FileNameTooLong", len |-> d1.n])]
        ELSE IF data_len < file_header_size
            THEN [r |-> r, ret |-> Read(file_header_size - data_len)]
        ELSE IF ~IsUtf8(d2.bytes) THEN [r |-> r, ret |-> Err([kind |-> "InvalidFileName"])]
        ELSE [r |-> [r EXCEPT !.buffer = SubSeq(@, file_header_size + 1, Len(@)),
                              !.position = @ + file_header_size,
                              !.next_file_position = @ + file_header_size + file_data_len,
                              !.key = d3.key,
                              !.need_seek = TRUE,
                              !.state = [tag |-> "FileData", key |-> d3.key, counter |-> 0,
                                         remaining |-> file_data_len]],
              ret |-> Done([name |-> d2.bytes, size |-> file_data_len])]

Reader_step_read_file_header_no_seek(r) ==
    LET h == Reader_step_read_header(r)
        r1 == h.r
    IN  IF r.state.tag = "Header" /\ h.ret.type # "Done" THEN h
        ELSE Reader_parse_file_header([r1 EXCEPT !.state = [tag |-> "FileHeader"]])

Reader_step_read_file_header(r) ==
    LET h == Reader_step_read_header(r)
        r1 == h.r
    IN  IF r.state.tag = "Header" /\ h.ret.type # "Done" THEN h
        ELSE IF r1.state.tag = "FileData" /\ r1.position # r1.next_file_position
            THEN [r |-> r1, ret |-> Seek(r1.next_file_position)]
        ELSE Reader_parse_file_header([r1 EXCEPT !.state = [tag |-> "FileHeader"]])

Reader_step_read_file_data_state_key(r, output_len) ==
    LET h == Reader_step_read_header(r)
        r1 == h.r
        data == r1.buffer
        len == Min(Min(Len(data), output_len), r1.state.remaining)
        d == decrypt_file_data_bytes(Slice(data, 0, len), r1.state.key, r1.state.counter)
    IN  IF r.state.tag = "Header" /\ h.ret.type # "Done" THEN h
        ELSE IF r1.state.tag = "FileHeader" THEN [r |-> r1, ret |-> Done(0), out |-> <<>>]
        ELSE IF r1.state.remaining = 0 THEN [r |-> r1, ret |-> Done(0), out |-> <<>>]
        ELSE IF data = <<>> THEN [r |-> r1, ret |-> Read(available_space(r1.buffer))]
        ELSE [r |-> [r1 EXCEPT !.buffer = SubSeq(@, len + 1, Len(@)),
                               !.position = @ + len,
                               !.key = d.key,
                               !.state = [tag |-> "FileData", key |-> d.key, counter |-> d.counter,
                                          remaining |-> r1.state.remaining - len]],
              ret |-> Done(len), out |-> d.buffer]

\* step_read_file_data that drops the buffered bytes when it has nothing to hand out
Reader_step_read_file_data_drain(r, output_len) ==
    LET h == Reader_step_read_header(r)
        r1 == h.r
        data == r1.buffer
        len == Min(Min(Len(data), output_len), r1.state.remaining)
        d == decrypt_file_data_bytes(Slice(data, 0, len), r1.state.key, r1.state.counter)
        drained == [r1 EXCEPT !.buffer = <<>>, !.position = @ + Len(data)]
    IN  IF r.state.tag = "Header" /\ h.ret.type # "Done" THEN h
        ELSE IF r1.state.tag = "FileHeader" THEN [r |-> drained, ret |-> Done(0), out |-> <<>>]
        ELSE IF r1.state.remaining = 0 THEN [r |-> drained, ret |-> Done(0), out |-> <<>>]
        ELSE IF data = <<>> THEN [r |-> r1, ret |-> Read(available_space(r1.buffer))]
        ELSE [r |-> [r1 EXCEPT !.buffer = SubSeq(@, len + 1, Len(@)),
                               !.position = @ + len,
                               !.state = [tag |-> "FileData", key |-> d.key, counter |-> d.counter,
                                          remaining |-> r1.state.remaining - len]],
              ret |-> Done(len), out |-> d.buffer]

\* step_read_file_data without the bound of `remaining` on what it hands out
Reader_step_read_file_data_unbounded(r, output_len) ==
    LET h == Reader_step_read_header(r)
        r1 == h.r
        data == r1.buffer
        len == Min(Len(data), output_len)
        d == decrypt_file_data_bytes(Slice(data, 0, len), r1.state.key, r1.state.counter)
    IN  IF r.state.tag = "Header" /\ h.ret.type # "Done" THEN h
        ELSE IF r1.state.tag = "FileHeader" THEN [r |-> r1, ret |-> Done(0), out |-> <<>>]
        ELSE IF r1.state.remaining = 0 THEN [r |-> r1, ret |-> Done(0), out |-> <<>>]
        ELSE IF data = <<>> THEN [r |-> r1, ret |-> Read(available_space(r1.buffer))]
        ELSE [r |-> [r1 EXCEPT !.buffer = SubSeq(@, len + 1, Len(@)),
                               !.position = @ + len,
                               !.state = [tag |-> "FileData", key |-> d.key, counter |-> d.counter,
                                          remaining |-> IF r1.state.remaining > len
                                                        THEN r1.state.remaining - len ELSE 0]],
              ret |-> Done(len), out |-> d.buffer]

\* output_len is output_buffer.len(); `out` is what the call wrote to output_buffer
Reader_step_read_file_data(r, output_len) ==
    LET h == Reader_step_read_header(r)
        r1 == h.r
        data == r1.buffer
        len == Min(Min(Len(data), output_len), r1.state.remaining)
        d == decrypt_file_data_bytes(Slice(data, 0, len), r1.state.key, r1.state.counter)
    IN  IF r.state.tag = "Header" /\ h.ret.type # "Done" THEN h
        ELSE IF r1.state.tag = "FileHeader" THEN [r |-> r1, ret |-> Done(0), out |-> <<>>]
        ELSE IF r1.state.remaining = 0 THEN [r |-> r1, ret |-> Done(0), out |-> <<>>]
        ELSE IF data = <<>> THEN [r |-> r1, ret |-> Read(available_space(r1.buffer))]
        ELSE [r |-> [r1 EXCEPT !.buffer = SubSeq(@, len + 1, Len(@)),
                               !.position = @ + len,
                               !.state = [tag |-> "FileData", key |-> d.key, counter |-> d.counter,
                                          remaining |-> r1.state.remaining - len]],
              ret |-> Done(len), out |-> d.buffer]

----------------------------------------------------------------------------
(* Format 3: words, constants and the static-key cipher *)

None == <<>>
Some(v) == <<v>>

\* a.overflowing_add(b).0 on u32
U32Add(a, b) ==
    LET t1 == a[1] + b[1]
        t2 == a[2] + b[2] + (t1 \div 256)
        t3 == a[3] + b[3] + (t2 \div 256)
        t4 == a[4] + b[4] + (t3 \div 256)
    IN  <<t1 % 256, t2 % 256, t3 % 256, t4 % 256>>

\* a.overflowing_sub(n).0, for a number 0 < n < 256: a + (2^32 - n)
U32SubSmall(a, n) == U32Add(a, <<256 - n, 255, 255, 255>>)

\* a.overflowing_div(d).0, for a number 0 < d < 256: long division from the top byte
U32DivSmall(a, d) ==
    LET c4 == a[4]
        c3 == (c4 % d) * 256 + a[3]
        c2 == (c3 % d) * 256 + a[2]
        c1 == (c2 % d) * 256 + a[1]
    IN  <<c1 \div d, c2 \div d, c3 \div d, c4 \div d>>

\* Writer3::step_write_header: key.overflowing_sub(3).0.overflowing_div(9).0
SeedOfKey(key) == U32DivSmall(U32SubSmall(key, 3), 9)

\* Reader3::step_read_header: key.overflowing_mul(9).0.overflowing_add(3).0
KeyOfSeed(seed) == MulAdd(seed, 9, 3)

VERSION3 == 3
VERSION_LEN == 1
KEY_LEN == U32_LEN
HEADER_LEN3 == MAGIC_LEN + VERSION_LEN + KEY_LEN
MAX_FILE_NAME_LEN_USIZE == MAX_FILE_NAME_LEN

\* crate::crypt_name_bytes3(key, bytes): the bytes XORed with the four bytes of the
\* static key in turn; the function itself is not among the sources
crypt_name_bytes3(key, bytes) ==
    [i \in 1..Len(bytes) |-> Xor(bytes[i], key[((i - 1) % 4) + 1])]

----------------------------------------------------------------------------
(* sans_io::Reader3 (format 3) *)

Reader3_new ==
    [buffer |-> <<>>, state |-> [tag |-> "Header"], position |-> 0, key |-> None,
     next_file_header_position |-> Some(HEADER_LEN3)]

Reader3_fill(r, bytes) == [r EXCEPT !.buffer = @ \o bytes]

Reader3_finish_seek(r, position) == [r EXCEPT !.position = position, !.buffer = <<>>]

Reader3_key(r) == r.key

Reader3_step_read_header_rederive(r) ==
    LET data == r.buffer
        data_len == Len(data)
        key == KeyOfSeed(IF r.key = None THEN Slice(data, MAGIC_LEN + VERSION_LEN, KEY_LEN)
                         ELSE r.key[1])
    IN  IF r.state.tag # "Header"
            THEN [r |-> [r EXCEPT !.key = Some(key)], ret |-> Done("unit")]
        ELSE IF data_len < HEADER_LEN3 THEN [r |-> r, ret |-> Read(HEADER_LEN3 - data_len)]
        ELSE [r |-> [r EXCEPT !.buffer = SubSeq(@, HEADER_LEN3 + 1, Len(@)),
                              !.position = HEADER_LEN3,
                              !.key = Some(key),
                              !.state = [tag |-> "FileHeader"]],
              ret |-> Done("unit")]

Reader3_step_read_header_version_first(r) ==
    LET data == r.buffer
        data_len == Len(data)
        magic == Slice(data, 0, MAGIC_LEN)
        version == data[MAGIC_LEN + 1]
        key == KeyOfSeed(Slice(data, MAGIC_LEN + VERSION_LEN, KEY_LEN))
    IN  IF r.state.tag # "Header" THEN [r |-> r, ret |-> Done("unit")]
        ELSE IF data_len < HEADER_LEN3 THEN [r |-> r, ret |-> Read(HEADER_LEN3 - data_len)]
        ELSE IF version # VERSION3
            THEN [r |-> r, ret |-> Err([kind |-> "InvalidVersion", version |-> version])]
        ELSE IF magic # MAGIC
            THEN [r |-> r, ret |-> Err([kind |-> "InvalidMagic", magic |-> magic])]
        ELSE [r |-> [r EXCEPT !.buffer = SubSeq(@, HEADER_LEN3 + 1, Len(@)),
                              !.position = HEADER_LEN3,
                              !.key = Some(key),
                              !.state = [tag |-> "FileHeader"]],
              ret |-> Done("unit")]

Reader3_step_read_header(r) ==
    LET data == r.buffer
        data_len == Len(data)
        magic == Slice(data, 0, MAGIC_LEN)
        version == data[MAGIC_LEN + 1]
        key == KeyOfSeed(Slice(data, MAGIC_LEN + VERSION_LEN, KEY_LEN))
    IN  IF r.state.tag # "Header" THEN [r |-> r, ret |-> Done("unit")]
        ELSE IF data_len < HEADER_LEN3 THEN [r |-> r, ret |-> Read(HEADER_LEN3 - data_len)]
        ELSE IF magic # MAGIC
            THEN [r |-> r, ret |-> Err([kind |-> "InvalidMagic", magic |-> magic])]
        ELSE IF version # VERSION3
            THEN [r |-> r, ret |-> Err([kind |-> "InvalidVersion", version |-> version])]
        ELSE [r |-> [r EXCEPT !.buffer = SubSeq(@, HEADER_LEN3 + 1, Len(@)),
                              !.position = HEADER_LEN3,
                              !.key = Some(key),
                              !.state = [tag |-> "FileHeader"]],
              ret |-> Done("unit")]

\* step_read_file_header that leaves the terminator record in the buffer
Reader3_step_read_file_header_keep_terminator(r) ==
    LET h == Reader3_step_read_header(r)
        r1 == h.r
        key == r1.key[1]
        data == r1.buffer
        data_len == Len(data)
        prefix == 4 * U32_LEN
        offset == U32Xor(Slice(data, 0, U32_LEN), key)
        size == U32Xor(Slice(data, U32_LEN, U32_LEN), key)
        file_key == U32Xor(Slice(data, 2 * U32_LEN, U32_LEN), key)
        name_len == ToNat(U32Xor(Slice(data, 3 * U32_LEN, U32_LEN), key))
        expected_size == prefix + name_len
        name_bytes == crypt_name_bytes3(key, Slice(data, prefix, name_len))
    IN  IF r.state.tag = "Header" /\ h.ret.type # "Done" THEN h
        ELSE IF r1.next_file_header_position = None THEN [r |-> r1, ret |-> Done(None)]
        ELSE IF r1.position # r1.next_file_header_position[1]
            THEN [r |-> r1, ret |-> Seek(r1.next_file_header_position[1])]
        ELSE IF data_len < prefix THEN [r |-> r1, ret |-> Read(prefix - data_len)]
        ELSE IF offset = <<0, 0, 0, 0>>
            THEN [r |-> [r1 EXCEPT !.next_file_header_position = None], ret |-> Done(None)]
        ELSE IF data_len < expected_size THEN [r |-> r1, ret |-> Read(expected_size - data_len)]
        ELSE IF ~IsUtf8(name_bytes) THEN [r |-> r1, ret |-> Err([kind |-> "InvalidFileName"])]
        ELSE [r |-> [r1 EXCEPT !.buffer = SubSeq(@, expected_size + 1, Len(@)),
                               !.position = @ + expected_size,
                               !.next_file_header_position = Some(r1.position + expected_size)],
              ret |-> Done(Some([name |-> name_bytes, size |-> ToNat(size), key |-> file_key,
                                 offset |-> ToNat(offset)]))]

\* the value is None at the end of the table, Some(FileHeader3) otherwise
Reader3_step_read_file_header(r) ==
    LET h == Reader3_step_read_header(r)
        r1 == h.r
        key == r1.key[1]
        data == r1.buffer
        data_len == Len(data)
        prefix == 4 * U32_LEN
        offset == U32Xor(Slice(data, 0, U32_LEN), key)
        size == U32Xor(Slice(data, U32_LEN, U32_LEN), key)
        file_key == U32Xor(Slice(data, 2 * U32_LEN, U32_LEN), key)
        name_len == ToNat(U32Xor(Slice(data, 3 * U32_LEN, U32_LEN), key))
        expected_size == prefix + name_len
        name_bytes == crypt_name_bytes3(key, Slice(data, prefix, name_len))
    IN  IF r.state.tag = "Header" /\ h.ret.type # "Done" THEN h
        ELSE IF r1.next_file_header_position = None THEN [r |-> r1, ret |-> Done(None)]
        ELSE IF r1.position # r1.next_file_header_position[1]
            THEN [r |-> r1, ret |-> Seek(r1.next_file_header_position[1])]
        ELSE IF data_len < prefix THEN [r |-> r1, ret |-> Read(prefix - data_len)]
        ELSE IF offset = <<0, 0, 0, 0>>
            THEN [r |-> [r1 EXCEPT !.buffer = SubSeq(@, prefix + 1, Len(@)),
                                   !.position = @ + prefix,
                                   !.next_file_header_position = None],
                  ret |-> Done(None)]
        ELSE IF data_len < expected_size THEN [r |-> r1, ret |-> Read(expected_size - data_len)]
        ELSE IF ~IsUtf8(name_bytes) THEN [r |-> r1, ret |-> Err([kind |-> "InvalidFileName"])]
        ELSE [r |-> [r1 EXCEPT !.buffer = SubSeq(@, expected_size + 1, Len(@)),
                               !.position = @ + expected_size,
                               !.next_file_header_position = Some(r1.position + expected_size)],
              ret |-> Done(Some([name |-> name_bytes, size |-> ToNat(size), key |-> file_key,
                                 offset |-> ToNat(offset)]))]

\* the file-data part of step_read_file_data, in State::FileData for file_header
Reader3_read_data(r, file_header, output_len) ==
    LET relative_position == IF r.position > file_header.offset
                             THEN r.position - file_header.offset ELSE 0
        remaining == IF file_header.size > relative_position
                     THEN file_header.size - relative_position ELSE 0
        data == r.buffer
        len == Min(Min(Len(data), output_len), remaining)
        c == crypt_file_data(r.state.key, relative_position % 4, Slice(data, 0, len))
    IN  IF remaining = 0 THEN [r |-> r, ret |-> Done(0), out |-> <<>>]
        ELSE IF data = <<>>
            THEN [r |-> r, ret |-> Read(Min(remaining, available_space(r.buffer)))]
        ELSE [r |-> [r EXCEPT !.buffer = SubSeq(@, len + 1, Len(@)),
                              !.position = @ + len,
                              !.state = [tag |-> "FileData", offset |-> r.state.offset,
                                         key |-> c.key]],
              ret |-> Done(len), out |-> c.buffer]

\* output_len is output_buffer.len(); `out` is what the call wrote to output_buffer
Reader3_step_read_file_data(r, file_header, output_len) ==
    LET h == Reader3_step_read_header(r)
        r1 == h.r
        started == [r1 EXCEPT !.state = [tag |-> "FileData", offset |-> file_header.offset,
                                         key |-> file_header.key]]
    IN  IF r.state.tag = "Header" /\ h.ret.type # "Done" THEN h
        ELSE IF r1.state.tag = "FileData" /\ r1.state.offset = file_header.offset
            THEN Reader3_read_data(r1, file_header, output_len)
        ELSE IF r1.position # file_header.offset
            THEN [r |-> r1, ret |-> Seek(file_header.offset)]
        ELSE Reader3_read_data(started, file_header, output_len)

----------------------------------------------------------------------------
(* sans_io::Writer3 (format 3) *)

Writer3_new(key) ==
    [buffer |-> <<>>, key |-> key, state |-> [tag |-> "Header"], files |-> <<>>,
     data_position |-> HEADER_LEN3 + (U32_LEN * 4)]

Writer3_consume(w, size) == [w EXCEPT !.buffer = SubSeq(@, size + 1, Len(@))]

Writer3_step_write_header(w) ==
    LET key == SeedOfKey(w.key)
    IN  IF w.state.tag # "Header" THEN [w |-> w, ret |-> Done("unit")]
        ELSE IF available_space(w.buffer) < HEADER_LEN3 THEN [w |-> w, ret |-> Write]
        ELSE [w |-> [w EXCEPT !.buffer = @ \o MAGIC \o <<VERSION3>> \o key,
                              !.state = [tag |-> "FileHeader", index |-> 0,
                                         relative_data_offset |-> 0]],
              ret |-> Done("unit")]

\* add_file that is accepted until the sentinel is staged
Writer3_add_file_in_table(w, name, size, key) ==
    LET name_len == Len(name)
    IN  IF ~(w.state.tag = "Header" \/ w.state.tag = "FileHeader")
            THEN [w |-> w, ret |-> Err([kind |-> "InvalidState"])]
        ELSE IF name_len > MAX_FILE_NAME_LEN_USIZE
            THEN [w |-> w, ret |-> Err([kind |-> "FileNameTooLongUsize", len |-> name_len])]
        ELSE [w |-> [w EXCEPT !.files = Append(@, [name |-> name, size |-> size, key |-> key]),
                              !.data_position = @ + (U32_LEN * 4) + name_len],
              ret |-> Done("unit")]

Writer3_add_file(w, name, size, key) ==
    LET name_len == Len(name)
    IN  IF ~(w.state.tag = "Header" \/ (w.state.tag = "FileHeader" /\ w.state.index = 0))
            THEN [w |-> w, ret |-> Err([kind |-> "InvalidState"])]
        ELSE IF name_len > MAX_FILE_NAME_LEN_USIZE
            THEN [w |-> w, ret |-> Err([kind |-> "FileNameTooLongUsize", len |-> name_len])]
        ELSE [w |-> [w EXCEPT !.files = Append(@, [name |-> name, size |-> size, key |-> key]),
                              !.data_position = @ + (U32_LEN * 4) + name_len],
              ret |-> Done("unit")]

RECURSIVE Writer3_write_records_table_end(_)
\* the loop of step_write_file_headers with every offset at the end of the table
Writer3_write_records_table_end(w) ==
    LET index == w.state.index
        file == w.files[index + 1]
        name_len == Len(file.name)
        offset == w.data_position
        expected_size == (4 * U32_LEN) + name_len
        first == IF w.files = <<>> THEN [size |-> 0, key |-> <<0, 0, 0, 0>>]
                 ELSE [size |-> w.files[1].size, key |-> w.files[1].key]
    IN  IF index < Len(w.files)
        THEN IF available_space(w.buffer) < expected_size THEN [w |-> w, ret |-> Write]
             ELSE Writer3_write_records_table_end(
                      [w EXCEPT !.buffer = @ \o U32Xor(U32(offset), w.key)
                                             \o U32Xor(U32(file.size), w.key)
                                             \o U32Xor(file.key, w.key)
                                             \o U32Xor(U32(name_len), w.key)
                                             \o crypt_name_bytes3(w.key, file.name),
                                !.state = [tag |-> "FileHeader", index |-> index + 1,
                                           relative_data_offset |->
                                               w.state.relative_data_offset + file.size]])
        ELSE IF available_space(w.buffer) < 4 * U32_LEN THEN [w |-> w, ret |-> Write]
        ELSE [w |-> [w EXCEPT !.buffer = @ \o w.key \o w.key \o w.key \o w.key,
                              !.state = [tag |-> "FileData", index |-> 0,
                                         remaining |-> first.size, key |-> first.key,
                                         counter |-> 0]],
              ret |-> Done("unit")]

RECURSIVE Writer3_write_records(_)
\* the loop of step_write_file_headers over the files from state.index on, then
\* the terminator
Writer3_write_records(w) ==
    LET index == w.state.index
        file == w.files[index + 1]
        name_len == Len(file.name)
        offset == w.data_position + w.state.relative_data_offset
        expected_size == (4 * U32_LEN) + name_len
        first == IF w.files = <<>> THEN [size |-> 0, key |-> <<0, 0, 0, 0>>]
                 ELSE [size |-> w.files[1].size, key |-> w.files[1].key]
    IN  IF index < Len(w.files)
        THEN IF available_space(w.buffer) < expected_size THEN [w |-> w, ret |-> Write]
             ELSE Writer3_write_records(
                      [w EXCEPT !.buffer = @ \o U32Xor(U32(offset), w.key)
                                             \o U32Xor(U32(file.size), w.key)
                                             \o U32Xor(file.key, w.key)
                                             \o U32Xor(U32(name_len), w.key)
                                             \o crypt_name_bytes3(w.key, file.name),
                                !.state = [tag |-> "FileHeader", index |-> index + 1,
                                           relative_data_offset |->
                                               w.state.relative_data_offset + file.size]])
        ELSE IF available_space(w.buffer) < 4 * U32_LEN THEN [w |-> w, ret |-> Write]
        ELSE [w |-> [w EXCEPT !.buffer = @ \o w.key \o w.key \o w.key \o w.key,
                              !.state = [tag |-> "FileData", index |-> 0,
                                         remaining |-> first.size, key |-> first.key,
                                         counter |-> 0]],
              ret |-> Done("unit")]

\* step_write_file_headers that stages a sentinel on every call
Writer3_step_write_file_headers_again(w) ==
    LET h == Writer3_step_write_header(w)
        w1 == h.w
    IN  IF w.state.tag = "Header" /\ h.ret.type # "Done" THEN h
        ELSE IF w1.state.tag = "FileData"
            THEN [w |-> [w1 EXCEPT !.buffer = @ \o w.key \o w.key \o w.key \o w.key],
                  ret |-> Done("unit")]
        ELSE Writer3_write_records(w1)

Writer3_step_write_file_headers(w) ==
    LET h == Writer3_step_write_header(w)
        w1 == h.w
    IN  IF w.state.tag = "Header" /\ h.ret.type # "Done" THEN h
        ELSE IF w1.state.tag = "FileData" THEN [w |-> w1, ret |-> Done("unit")]
        ELSE Writer3_write_records(w1)

\* step_write_file_data that goes on to the next file when the caller does
Writer3_step_write_file_data_skip(w, file_index, bytes) ==
    LET t == Writer3_step_write_file_headers(w)
        w1 == t.w
        size == Len(bytes)
        st == w1.state
        fi == IF file_index = st.index + 1 /\ file_index < Len(w1.files)
              THEN file_index ELSE st.index
        cur == IF fi = st.index THEN st
               ELSE [tag |-> "FileData", index |-> fi, remaining |-> w1.files[fi + 1].size,
                     key |-> w1.files[fi + 1].key, counter |-> 0]
        file_size == w1.files[st.index + 1].size
        c == crypt_file_data(cur.key, cur.counter, bytes)
        remaining == cur.remaining - size
        new_index == cur.index + 1
        next == IF new_index < Len(w1.files)
                THEN [size |-> w1.files[new_index + 1].size, key |-> w1.files[new_index + 1].key]
                ELSE [size |-> 0, key |-> <<0, 0, 0, 0>>]
    IN  IF w.state.tag # "FileData" /\ t.ret.type # "Done" THEN t
        ELSE IF st.index >= Len(w1.files) THEN [w |-> w1, ret |-> Done(0)]
        ELSE IF file_index = st.index + 1 /\ fi = st.index
            THEN [w |-> w1, ret |-> Err([kind |-> "FileDataSizeMismatch",
                                         actual |-> file_size - st.remaining,
                                         expected |-> file_size])]
        ELSE IF file_index + 1 = st.index
            THEN [w |-> w1, ret |-> Err([kind |-> "FileDataSizeMismatch",
                                         actual |-> w1.files[file_index + 1].size + size,
                                         expected |-> w1.files[file_index + 1].size])]
        ELSE IF file_index # fi THEN [w |-> w1, ret |-> Err([kind |-> "InvalidState"])]
        ELSE IF size > available_space(w1.buffer)
            THEN [w |-> w1, ret |-> Panic("range end index out of range")]
        ELSE IF remaining < 0
            THEN [w |-> w1, ret |-> Panic("attempt to subtract with overflow")]
        ELSE [w |-> [w1 EXCEPT !.buffer = @ \o c.buffer,
                               !.state = IF remaining = 0
                                         THEN [tag |-> "FileData", index |-> new_index,
                                               remaining |-> next.size, key |-> next.key,
                                               counter |-> 0]
                                         ELSE [tag |-> "FileData", index |-> cur.index,
                                               remaining |-> remaining, key |-> c.key,
                                               counter |-> c.counter]],
              ret |-> Done(size)]

\* `bytes` are what space()[..size] holds when it is encrypted: in State::FileData the
\* size plaintext bytes the caller put at the start of space()
Writer3_step_write_file_data(w, file_index, bytes) ==
    LET t == Writer3_step_write_file_headers(w)
        w1 == t.w
        size == Len(bytes)
        st == w1.state
        file_size == w1.files[st.index + 1].size
        c == crypt_file_data(st.key, st.counter, bytes)
        remaining == st.remaining - size
        new_index == st.index + 1
        next == IF new_index < Len(w1.files)
                THEN [size |-> w1.files[new_index + 1].size, key |-> w1.files[new_index + 1].key]
                ELSE [size |-> 0, key |-> <<0, 0, 0, 0>>]
    IN  IF w.state.tag # "FileData" /\ t.ret.type # "Done" THEN t
        ELSE IF st.index >= Len(w1.files) THEN [w |-> w1, ret |-> Done(0)]
        ELSE IF file_index = st.index + 1
            THEN [w |-> w1, ret |-> Err([kind |-> "FileDataSizeMismatch",
                                         actual |-> file_size - st.remaining,
                                         expected |-> file_size])]
        ELSE IF file_index + 1 = st.index
            THEN [w |-> w1, ret |-> Err([kind |-> "FileDataSizeMismatch",
                                         actual |-> w1.files[file_index + 1].size + size,
                                         expected |-> w1.files[file_index + 1].size])]
        ELSE IF file_index # st.index THEN [w |-> w1, ret |-> Err([kind |-> "InvalidState"])]
        ELSE IF size > available_space(w1.buffer)
            THEN [w |-> w1, ret |-> Panic("range end index out of range")]
        ELSE IF remaining < 0
            THEN [w |-> w1, ret |-> Panic("attempt to subtract with overflow")]
        ELSE [w |-> [w1 EXCEPT !.buffer = @ \o c.buffer,
                               !.state = IF remaining = 0
                                         THEN [tag |-> "FileData", index |-> new_index,
                                               remaining |-> next.size, key |-> next.key,
                                               counter |-> 0]
                                         ELSE [tag |-> "FileData", index |-> st.index,
                                               remaining |-> remaining, key |-> c.key,
                                               counter |-> c.counter]],
              ret |-> Done(size)]

\* space()[..Len(placed)] after d more bytes were staged: the caller put `placed` at the
\* start of the free space, the staged bytes went over its first d bytes, and the free
\* space now starts d bytes further on, where the buffer's memory holds `mem`
SpaceAt(placed, d, mem) ==
    [j \in 1..Len(placed) |-> IF d + j <= Len(placed) THEN placed[d + j] ELSE mem]

\* step_write_file_data(file_index, Len(placed)) after the caller put `placed` into
\* space(): the header and the table, where this call stages them, are written into
\* the same free space (writer3.rs:72-88, 148-180) before space() is taken again for
\* the data (writer3.rs:301-302)
Writer3_step_write_file_data_placed(w, file_index, placed, mem) ==
    LET t == Writer3_step_write_file_headers(w)
    IN  Writer3_step_write_file_data(w, file_index,
                                     SpaceAt(placed, Len(t.w.buffer) - Len(w.buffer), mem))

----------------------------------------------------------------------------
(* reader.rs: the blocking Reader, its Buffer and its Entry.                  *)
(* The transport is the bytes s and a position pos; during one call it hands  *)
(* over at most `fuel` bytes and then fails with WouldBlock (the SlowReader   *)
(* of the tests); at the end of s a read returns 0 bytes.                     *)

Ok(v) == [type |-> "Ok", value |-> v]
IoErr(kind) == [type |-> "Err", error |-> [kind |-> kind]]

\* reader/buffer.rs Buffer::new: `len` is buffer.len(), data the bytes read so far
Buffer_new(len) == [data |-> <<>>, len |-> len, position |-> 0]

\* std::mem::take(buffer.buffer_mut()): the Vec is left empty, the position stays
Buffer_take(b) == [b EXCEPT !.data = <<>>, !.len = 0]

\* the bytes left in the transport at pos
Avail(s, pos) == IF pos < Len(s) THEN Len(s) - pos ELSE 0

Buffer_fill_drop_on_error(b, s, pos, fuel) ==
    LET need == b.len - b.position
        n == Min(Min(need, fuel), Avail(s, pos))
        filled == [b EXCEPT !.data = @ \o Slice(s, pos, n), !.position = @ + n]
    IN  IF b.position = b.len THEN [b |-> b, pos |-> pos, fuel |-> fuel, res |-> "Ok"]
        ELSE IF b.position > b.len
            THEN [b |-> b, pos |-> pos, fuel |-> fuel, res |-> "Panic"]
        ELSE IF n = need
            THEN [b |-> filled, pos |-> pos + n, fuel |-> fuel - n, res |-> "Ok"]
        ELSE [b |-> Buffer_new(b.len), pos |-> pos + n, fuel |-> fuel - n,
              res |-> IF fuel - n = 0 THEN "WouldBlock" ELSE "UnexpectedEof"]

\* Buffer::fill: reads until the buffer is full; a read of 0 bytes is UnexpectedEof,
\* an Interrupted read is tried again, any other error is returned with the bytes
\* read so far kept
Buffer_fill(b, s, pos, fuel) ==
    LET need == b.len - b.position
        n == Min(Min(need, fuel), Avail(s, pos))
        filled == [b EXCEPT !.data = @ \o Slice(s, pos, n), !.position = @ + n]
    IN  IF b.position = b.len THEN [b |-> b, pos |-> pos, fuel |-> fuel, res |-> "Ok"]
        ELSE IF b.position > b.len
            THEN [b |-> b, pos |-> pos, fuel |-> fuel, res |-> "Panic"]
        ELSE [b |-> filled, pos |-> pos + n, fuel |-> fuel - n,
              res |-> IF n = need THEN "Ok"
                      ELSE IF fuel - n = 0 THEN "WouldBlock" ELSE "UnexpectedEof"]

\* the result of a failed fill, as the caller returns it
FillFailure(res) ==
    IF res = "Panic" THEN Panic("range start index out of range") ELSE IoErr(res)

read_decrypt_u32_rotate_first(buffer, key, s, pos, fuel) ==
    LET f == Buffer_fill(buffer, s, pos, fuel)
    IN  IF f.res # "Ok" THEN f @@ [n |-> <<0, 0, 0, 0>>, key |-> RotateKey(key)]
        ELSE f @@ [n |-> U32Xor(f.b.data, key), key |-> RotateKey(key)]

\* read_decrypt_u32: the key rotates only once the four bytes are there
read_decrypt_u32(buffer, key, s, pos, fuel) ==
    LET f == Buffer_fill(buffer, s, pos, fuel)
    IN  IF f.res # "Ok" THEN f @@ [n |-> <<0, 0, 0, 0>>, key |-> key]
        ELSE f @@ [n |-> U32Xor(f.b.data, key), key |-> RotateKey(key)]

EndOfArchive_any_eof(res, buffer) == res = "UnexpectedEof"

\* the match guard of ReadFileNameSize: an EOF before any byte of the name-length
\* field is the end of the archive
EndOfArchive(res, buffer) == res = "UnexpectedEof" /\ buffer.position = 0

IoReader_new ==
    [version |-> 1, key |-> DEFAULT_KEY, next_entry_position |-> 0,
     state |-> [tag |-> "ReadMagicAndVersion", buffer |-> Buffer_new(HEADER_LEN)],
     entry |-> None]

RECURSIVE IoReader_read_header(_, _, _, _, _)
\* Reader::read_header; seek_ok: the transport's stream_position() succeeds
IoReader_read_header(r, s, pos, fuel, seek_ok) ==
    LET st == r.state
        out(r2, pos2, res) == [r |-> r2, pos |-> pos2, ret |-> res]
    IN  IF st.tag = "ReadMagicAndVersion" THEN
            LET f == Buffer_fill(st.buffer, s, pos, fuel)
                r1 == [r EXCEPT !.state.buffer = f.b]
                magic == Slice(f.b.data, 0, MAGIC_LEN)
                version == f.b.data[MAGIC_LEN + 1]
            IN  IF f.res # "Ok" THEN out(r1, f.pos, FillFailure(f.res))
                ELSE IF magic # MAGIC
                    THEN out(r1, f.pos, Err([kind |-> "InvalidMagic", magic |-> magic]))
                ELSE IF version # 1 /\ version # 3
                    THEN out(r1, f.pos, Err([kind |-> "InvalidVersion", version |-> version]))
                ELSE IoReader_read_header(
                         [r1 EXCEPT !.version = version,
                                    !.state = IF version = 3
                                              THEN [tag |-> "ReadArchiveKey",
                                                    buffer |-> Buffer_new(U32_LEN)]
                                              ELSE [tag |-> "GetStreamPosition"]],
                         s, f.pos, f.fuel, seek_ok)
        ELSE IF st.tag = "ReadArchiveKey" THEN
            LET f == Buffer_fill(st.buffer, s, pos, fuel)
                r1 == [r EXCEPT !.state.buffer = f.b]
            IN  IF f.res # "Ok" THEN out(r1, f.pos, FillFailure(f.res))
                ELSE IoReader_read_header(
                         [r1 EXCEPT !.key = KeyOfSeed(f.b.data),
                                    !.state = [tag |-> "GetStreamPosition"]],
                         s, f.pos, f.fuel, seek_ok)
        ELSE IF st.tag = "GetStreamPosition" THEN
            IF ~seek_ok THEN out(r, pos, IoErr("WouldBlock"))
            ELSE out([r EXCEPT !.next_entry_position = pos, !.state = [tag |-> "SeekEntry"]],
                     pos, Ok("unit"))
        ELSE out(r, pos, Ok("unit"))

\* the Entry handed out by read_entry: reader.take(size) may read `limit` more bytes
Entry_new(file_name, size, key) ==
    [file_name |-> file_name, size |-> size, key |-> key, limit |-> size, counter |-> 0]

RECURSIVE IoReader_read_entry(_, _, _, _, _)
\* Reader::read_entry; seek_ok: the transport's seek succeeds. The result's ret is
\* Ok(None), Ok(Some(entry)), an error or a panic.
IoReader_read_entry(r, s, pos, fuel, seek_ok) ==
    LET st == r.state
        out(r2, pos2, res) == [r |-> r2, pos |-> pos2, ret |-> res]
    IN  IF st.tag = "SeekEntry" THEN
            IF ~seek_ok THEN out(r, pos, IoErr("WouldBlock"))
            ELSE IoReader_read_entry(
                     [r EXCEPT !.state = IF r.version = 3
                                         THEN [tag |-> "ReadV3EntryHeader",
                                               buffer |-> Buffer_new(3 * U32_LEN)]
                                         ELSE [tag |-> "ReadFileNameSize",
                                               buffer |-> Buffer_new(U32_LEN)]],
                     s, r.next_entry_position, fuel, seek_ok)
        ELSE IF st.tag = "ReadV3EntryHeader" THEN
            LET f == Buffer_fill(st.buffer, s, pos, fuel)
                r1 == [r EXCEPT !.state.buffer = f.b]
                offset == U32Xor(Slice(f.b.data, 0, U32_LEN), r.key)
                size == U32Xor(Slice(f.b.data, U32_LEN, U32_LEN), r.key)
                file_key == U32Xor(Slice(f.b.data, 2 * U32_LEN, U32_LEN), r.key)
            IN  IF f.res # "Ok" THEN out(r1, f.pos, FillFailure(f.res))
                ELSE IF offset = <<0, 0, 0, 0>>
                    THEN out(r1, f.pos, Panic("assertion failed: offset != 0"))
                ELSE IoReader_read_entry(
                         [r1 EXCEPT !.state = [tag |-> "ReadV3FileName", offset |-> offset,
                                               size |-> size, file_key |-> file_key,
                                               file_name_size_buffer |-> Buffer_new(U32_LEN),
                                               file_name_buffer |-> Buffer_new(0)]],
                         s, f.pos, f.fuel, seek_ok)
        ELSE IF st.tag = "ReadV3FileName" THEN
            LET f1 == IF st.file_name_buffer.len = 0
                      THEN Buffer_fill(st.file_name_size_buffer, s, pos, fuel)
                      ELSE [b |-> st.file_name_size_buffer, pos |-> pos, fuel |-> fuel,
                            res |-> "Ok"]
                file_name_size == ToNat(U32Xor(f1.b.data, r.key))
                resized == IF st.file_name_buffer.len = 0
                           THEN [st.file_name_buffer EXCEPT !.len = file_name_size]
                           ELSE st.file_name_buffer
                f2 == Buffer_fill(resized, s, f1.pos, f1.fuel)
                file_name == crypt_name_bytes3(r.key, f2.b.data)
                taken == [r EXCEPT !.state.file_name_size_buffer = f1.b,
                                   !.state.file_name_buffer = Buffer_take(f2.b)]
            IN  IF f1.res # "Ok"
                    THEN out([r EXCEPT !.state.file_name_size_buffer = f1.b], f1.pos,
                             FillFailure(f1.res))
                ELSE IF f2.res # "Ok"
                    THEN out([r EXCEPT !.state.file_name_size_buffer = f1.b,
                                       !.state.file_name_buffer = f2.b], f2.pos,
                             FillFailure(f2.res))
                ELSE IF ~IsUtf8(file_name)
                    THEN out(taken, f2.pos, Err([kind |-> "InvalidFileName"]))
                ELSE out([r EXCEPT !.next_entry_position = @ + (4 * U32_LEN) + Len(file_name),
                                   !.state = [tag |-> "SeekEntry"],
                                   !.entry = Some(Entry_new(file_name, ToNat(st.size), r.key))],
                         f2.pos, Ok(Some(Entry_new(file_name, ToNat(st.size), r.key))))
        ELSE IF st.tag = "ReadFileNameSize" THEN
            LET d == read_decrypt_u32(st.buffer, r.key, s, pos, fuel)
                r1 == [r EXCEPT !.state.buffer = d.b, !.key = d.key]
            IN  IF EndOfArchive(d.res, d.b) THEN out(r1, d.pos, Ok(None))
                ELSE IF d.res # "Ok" THEN out(r1, d.pos, FillFailure(d.res))
                ELSE IoReader_read_entry(
                         [r1 EXCEPT !.key = d.key,
                                    !.state = [tag |-> "ReadFileName",
                                               buffer |-> Buffer_new(ToNat(d.n)),
                                               encrypted |-> TRUE]],
                         s, d.pos, d.fuel, seek_ok)
        ELSE IF st.tag = "ReadFileName" THEN
            LET f == Buffer_fill(st.buffer, s, pos, fuel)
                c == IF st.encrypted THEN crypt_name_bytes(r.key, f.b.data)
                     ELSE [bytes |-> f.b.data, key |-> r.key]
                taken == [r EXCEPT !.key = c.key,
                                   !.state.buffer = Buffer_take(f.b),
                                   !.state.encrypted = FALSE]
            IN  IF f.res # "Ok"
                    THEN out([r EXCEPT !.state.buffer = f.b], f.pos, FillFailure(f.res))
                ELSE IF ~IsUtf8(c.bytes)
                    THEN out(taken, f.pos, Err([kind |-> "InvalidFileName"]))
                ELSE IoReader_read_entry(
                         [taken EXCEPT !.state = [tag |-> "ReadFileSize", file_name |-> c.bytes,
                                                  buffer |-> Buffer_new(U32_LEN)]],
                         s, f.pos, f.fuel, seek_ok)
        ELSE IF st.tag = "ReadFileSize" THEN
            LET d == read_decrypt_u32(st.buffer, r.key, s, pos, fuel)
                file_size == ToNat(d.n)
                entry == Entry_new(st.file_name, file_size, d.key)
            IN  IF d.res # "Ok"
                    THEN out([r EXCEPT !.state.buffer = d.b, !.key = d.key], d.pos,
                             FillFailure(d.res))
                ELSE out([r EXCEPT !.key = d.key,
                                   !.next_entry_position =
                                       @ + U32_LEN + Len(st.file_name) + U32_LEN + file_size,
                                   !.state = [tag |-> "SeekEntry"],
                                   !.entry = Some(entry)],
                         d.pos, Ok(Some(entry)))
        ELSE out(r, pos, Err([kind |-> "InvalidState"]))

\* Entry::read into a buffer of buf_len bytes: Take::read, then decrypt_entry_bytes.
\* `out` is what the call wrote to the buffer.
Entry_read(e, buf_len, s, pos, fuel) ==
    LET max == Min(buf_len, e.limit)
        n == Min(Min(fuel, max), Avail(s, pos))
        d == decrypt_entry_bytes(Slice(s, pos, n), e.key, e.counter)
    IN  IF e.limit = 0 THEN [e |-> e, pos |-> pos, ret |-> Ok(0), out |-> <<>>]
        ELSE IF Min(fuel, max) = 0
            THEN [e |-> e, pos |-> pos, ret |-> IoErr("WouldBlock"), out |-> <<>>]
        ELSE [e |-> [e EXCEPT !.limit = @ - n, !.key = d.key, !.counter = d.counter],
              pos |-> pos + n, ret |-> Ok(n), out |-> d.buffer]

----------------------------------------------------------------------------
(* Values of the variables a specification does not use *)

Idle == [state |-> "Idle"]
NoRet == [type |-> "None"]

----------------------------------------------------------------------------
(* The entries the drivers write, and their archives *)

Entry(name, data) == [name |-> name, data |-> data]

\* "" (empty), "A" with one byte, "ab" with five bytes (the data key rotates), "A" empty
EntryKinds ==
    { Entry(<<>>, <<>>), Entry(<<65>>, <<7>>), Entry(<<97, 98>>, <<1, 2, 3, 4, 250>>),
      Entry(<<66>>, <<200, 100>>) }

EntryLists == SeqsUpTo(EntryKinds, MaxEntries)

RECURSIVE Encode1From(_, _)
\* the bytes sans_io::Writer stages for the entries, each entry's data in one call
Encode1From(w, entries) ==
    IF entries = <<>> THEN w.buffer
    ELSE LET e == Head(entries)
             h == Writer_step_write_file_header(w, e.name, Len(e.data)).w
             d == Writer_step_write_file_data(h, e.data).w
         IN  Encode1From(d, Tail(entries))

Encode1(entries) == Encode1From(Writer_step_write_header(Writer_new).w, entries)

----------------------------------------------------------------------------
(* The log of what a reader returned: one record per file header, with the    *)
(* data read for it, or one record for an error                               *)

LogFile(name, size) == [kind |-> "file", name |-> name, size |-> size, data |-> <<>>]
LogOther(kind) == [kind |-> kind, name |-> <<>>, size |-> 0, data |-> <<>>]

LogData(l, bytes) ==
    IF bytes = <<>> \/ l = <<>> THEN l ELSE [l EXCEPT ![Len(l)].data = @ \o bytes]

\* a repeated error or end of archive is logged once
LogOnce(l, kind) ==
    IF l # <<>> /\ l[Len(l)].kind = kind THEN l ELSE Append(l, LogOther(kind))

LogResult(l, res) ==
    IF res.type = "Err" THEN LogOnce(l, res.error.kind)
    ELSE IF res.type = "Panic" THEN LogOnce(l, "Panic")
    ELSE l

IsPrefix(a, b) == Len(a) <= Len(b) /\ a = SubSeq(b, 1, Len(a))

----------------------------------------------------------------------------
(* The driver of sans_io::Writer: it writes input.entries, the data of each   *)
(* entry in chunks, and moves the staged bytes to the transport               *)

WriterInput(entries) == [entries |-> entries, idx |-> 0, off |-> 0, hdr |-> FALSE]

RoundTrip1Init ==
    /\ mode = "Writer"
    /\ stream = <<>> /\ tpos = 0
    /\ wr = Writer_new /\ rd = Idle /\ wr3 = Idle /\ rd3 = Idle /\ brd = Idle
    /\ op = "new" /\ ret = NoRet /\ log = <<>> /\ ciph = Idle
    /\ \E entries \in EntryLists : input = WriterInput(entries)

W_StepWriteHeader ==
    /\ mode = "Writer"
    /\ LET res == Writer_step_write_header(wr)
       IN  wr' = res.w /\ ret' = res.ret
    /\ op' = "step_write_header"
    /\ UNCHANGED <<mode, stream, tpos, rd, wr3, rd3, brd, log, input, ciph>>

W_StepWriteFileHeader ==
    /\ mode = "Writer"
    /\ input.idx < Len(input.entries)
    /\ ~input.hdr
    /\ LET e == input.entries[input.idx + 1]
           res == Writer_step_write_file_header(wr, e.name, Len(e.data))
       IN  /\ wr' = res.w /\ ret' = res.ret
           /\ input' = [input EXCEPT !.hdr = (res.ret.type = "Done")]
    /\ op' = "step_write_file_header"
    /\ UNCHANGED <<mode, stream, tpos, rd, wr3, rd3, brd, log, ciph>>

W_StepWriteFileData(n) ==
    /\ mode = "Writer"
    /\ input.hdr
    /\ LET e == input.entries[input.idx + 1]
           res == Writer_step_write_file_data(wr, Slice(e.data, input.off, n))
       IN  /\ input.off + n <= Len(e.data)
           /\ wr' = res.w /\ ret' = res.ret
           /\ input' = IF res.w.state.tag = "FileHeader"
                       THEN [input EXCEPT !.idx = @ + 1, !.off = 0, !.hdr = FALSE]
                       ELSE [input EXCEPT !.off = @ + n]
    /\ op' = "step_write_file_data"
    /\ UNCHANGED <<mode, stream, tpos, rd, wr3, rd3, brd, log, ciph>>

\* the adapter writes n staged bytes to the transport and consumes them
W_Write(n) ==
    /\ mode = "Writer"
    /\ n >= 1 /\ n <= Len(wr.buffer)
    /\ stream' = stream \o SubSeq(wr.buffer, 1, n)
    /\ wr' = Writer_consume(wr, n)
    /\ op' = "consume" /\ ret' = NoRet
    /\ UNCHANGED <<mode, tpos, rd, wr3, rd3, brd, log, input, ciph>>

\* everything is written: a Reader is created over the transport's bytes
W_StartReader ==
    /\ mode = "Writer"
    /\ wr.state.tag = "FileHeader"
    /\ input.idx = Len(input.entries)
    /\ wr.buffer = <<>>
    /\ mode' = "ReaderLoop"
    /\ rd' = Reader_new
    /\ tpos' = 0
    /\ op' = "new" /\ ret' = NoRet
    /\ UNCHANGED <<stream, wr, wr3, rd3, brd, log, input, ciph>>

----------------------------------------------------------------------------
(* The driver of sans_io::Reader.  In mode "Reader" it calls any step at any  *)
(* time; in mode "ReaderLoop" it is an adapter's loop: a step that returned   *)
(* Read or Seek is called again, the request satisfied, until it is done.     *)

IsReader == mode \in {"Reader", "ReaderLoop"}

\* the step `op` returned a request and has not completed yet
Pending == ret.type \in {"Read", "Seek", "Filled", "Sought"}

MayCall(step) == mode = "ReaderLoop" /\ Pending => op = step /\ ret.type # "Seek"

R_StepReadHeader ==
    /\ IsReader /\ MayCall("step_read_header")
    /\ LET res == Reader_step_read_header(rd)
       IN  rd' = res.r /\ ret' = res.ret /\ log' = LogResult(log, res.ret)
    /\ op' = "step_read_header"
    /\ UNCHANGED <<mode, stream, tpos, wr, wr3, rd3, brd, input, ciph>>

R_StepReadFileHeader ==
    /\ IsReader /\ MayCall("step_read_file_header")
    /\ LET res == Reader_step_read_file_header(rd)
       IN  /\ rd' = res.r /\ ret' = res.ret
           /\ log' = IF res.ret.type = "Done"
                     THEN Append(log, LogFile(res.ret.value.name, res.ret.value.size))
                     ELSE LogResult(log, res.ret)
    /\ op' = "step_read_file_header"
    /\ UNCHANGED <<mode, stream, tpos, wr, wr3, rd3, brd, input, ciph>>

R_StepReadFileData(output_len) ==
    /\ IsReader /\ MayCall("step_read_file_data")
    /\ LET res == Reader_step_read_file_data(rd, output_len)
       IN  /\ rd' = res.r /\ ret' = res.ret
           /\ log' = IF res.ret.type = "Done" THEN LogData(log, res.out)
                     ELSE LogResult(log, res.ret)
    /\ op' = "step_read_file_data"
    /\ UNCHANGED <<mode, stream, tpos, wr, wr3, rd3, brd, input, ciph>>

\* the transport hands over n more bytes (a short read, or all it has left)
R_Fill(n) ==
    /\ IsReader
    /\ ret.type = "Read"
    /\ n >= 1 /\ tpos + n <= Len(stream) /\ n <= available_space(rd.buffer)
    /\ rd' = Reader_fill(rd, Slice(stream, tpos, n))
    /\ tpos' = tpos + n
    /\ ret' = [type |-> "Filled"]
    /\ UNCHANGED <<mode, stream, wr, wr3, rd3, brd, op, log, input, ciph>>

\* the driver seeks the transport as asked and tells the reader
R_FinishSeek ==
    /\ IsReader
    /\ ret.type = "Seek"
    /\ ~Reader_finish_seek_panics(rd)
    /\ rd' = Reader_finish_seek(rd)
    /\ tpos' = ret.position
    /\ ret' = [type |-> "Sought"]
    /\ UNCHANGED <<mode, stream, wr, wr3, rd3, brd, op, log, input, ciph>>

ReaderNext ==
    \/ R_StepReadHeader
    \/ R_StepReadFileHeader
    \/ \E n \in 1..MaxChunk : R_StepReadFileData(n)
    \/ \E n \in 1..MaxChunk : R_Fill(n)
    \/ R_Fill(Len(stream) - tpos)
    \/ R_FinishSeek

RoundTrip1Next ==
    \/ W_StepWriteHeader
    \/ W_StepWriteFileHeader
    \/ \E n \in 0..MaxChunk : W_StepWriteFileData(n)
    \/ W_StepWriteFileData(Len(input.entries[input.idx + 1].data) - input.off)
    \/ W_Write(1)
    \/ W_Write(Len(wr.buffer))
    \/ W_StartReader
    \/ ReaderNext

SpecRoundTrip1 == RoundTrip1Init /\ [][RoundTrip1Next]_vars

\* the log against the entries written: the same (name, size) in order, and data
\* that is a prefix of the entry's data
LogMatchesEntries(l, entries) ==
    /\ Len(l) <= Len(entries)
    /\ \A i \in 1..Len(l) :
          /\ l[i].kind = "file"
          /\ l[i].name = entries[i].name
          /\ l[i].size = Len(entries[i].data)
          /\ IsPrefix(l[i].data, entries[i].data)

\* C1: the bytes staged by the Writer for any entries, over any chunking of the
\* data, make the Reader return the same (name, size) headers in order and the
\* same data bytes; the Reader asks for bytes past the end only after the last entry.
C1_RoundTrip ==
    mode = "ReaderLoop" =>
        /\ LogMatchesEntries(log, input.entries)
        /\ stream = Encode1(input.entries)
        /\ (rd.state.tag = "FileData" =>
               Len(log[Len(log)].data) = log[Len(log)].size - rd.state.remaining)
        /\ (ret.type = "Read" /\ op = "step_read_file_header" /\ rd.buffer = <<>>
                /\ tpos = Len(stream)
               => Len(log) = Len(input.entries))

\* two entries were written and read back, the five data bytes of the second in full
C1_Witness ==
    /\ mode = "ReaderLoop"
    /\ Len(input.entries) = 2
    /\ Len(log) = 2
    /\ log[2].name = <<97, 98>>
    /\ log[2].data = <<1, 2, 3, 4, 250>>
    /\ log[1].data = <<7>>
    /\ ret.type = "Read" /\ op = "step_read_file_header" /\ tpos = Len(stream)

----------------------------------------------------------------------------
(* The cipher harness: a byte sequence put through the cipher in chunks *)

CipherKeys == {DEFAULT_KEY, <<0, 0, 0, 0>>, <<255, 255, 255, 255>>, <<73, 36, 146, 36>>}
CipherBytes == {0, 165}

CipherInit ==
    /\ mode = "Cipher"
    /\ stream = <<>> /\ tpos = 0
    /\ wr = Idle /\ rd = Idle /\ wr3 = Idle /\ rd3 = Idle /\ brd = Idle
    /\ op = "new" /\ ret = NoRet /\ log = <<>> /\ input = <<>>
    /\ \E key \in CipherKeys, counter \in 0..3, bytes \in SeqsUpTo(CipherBytes, MaxCipherLen) :
          ciph = [key0 |-> key, counter0 |-> counter, bytes |-> bytes, done |-> 0,
                  data |-> [buffer |-> <<>>, key |-> key, counter |-> counter],
                  entry |-> [buffer |-> <<>>, key |-> key, counter |-> counter],
                  chunks |-> 0]

\* one call of the cipher on the next n bytes, with the (key, counter) it left
CipherChunk(n) ==
    /\ mode = "Cipher"
    /\ n <= Len(ciph.bytes) - ciph.done
    /\ LET chunk == Slice(ciph.bytes, ciph.done, n)
           d == decrypt_file_data_bytes(chunk, ciph.data.key, ciph.data.counter)
           e == decrypt_entry_bytes(chunk, ciph.entry.key, ciph.entry.counter)
       IN  ciph' = [ciph EXCEPT !.done = @ + n,
                                !.data = [d EXCEPT !.buffer = ciph.data.buffer \o @],
                                !.entry = [e EXCEPT !.buffer = ciph.entry.buffer \o @],
                                !.chunks = IF @ < 2 THEN @ + 1 ELSE @]
    /\ UNCHANGED <<mode, stream, tpos, wr, rd, wr3, rd3, brd, op, ret, log, input>>

CipherNext == \E n \in 0..MaxCipherLen : CipherChunk(n)

SpecCipher == CipherInit /\ [][CipherNext]_vars

\* C9: the cipher applied to any split of B into chunks gives the output bytes
\* and the final (key, counter) of one call on B; the counter stays in 0..3 and
\* the key has rotated once per wrap of the counter from 3 to 0.
C9_CipherChunking ==
    mode = "Cipher" =>
        LET prefix == Slice(ciph.bytes, 0, ciph.done)
            one == decrypt_file_data_bytes(prefix, ciph.key0, ciph.counter0)
            oneE == decrypt_entry_bytes(prefix, ciph.key0, ciph.counter0)
            wraps == (ciph.counter0 + ciph.done) \div 4
        IN  /\ ciph.data = one
            /\ ciph.entry = oneE
            /\ ciph.data.counter \in 0..3
            /\ ciph.data.counter = (ciph.counter0 + ciph.done) % 4
            /\ ciph.data.key = RotateN(ciph.key0, wraps)
            /\ ciph.entry.counter = (ciph.counter0 + ciph.done) % 4
            /\ ciph.entry.key = RotateN(ciph.key0, wraps)
            /\ Len(ciph.data.buffer) = ciph.done

\* a sequence of 6 bytes went through in two or more chunks, from counter 3
C9_Witness ==
    /\ mode = "Cipher"
    /\ ciph.chunks >= 2
    /\ ciph.done = MaxCipherLen
    /\ ciph.counter0 = 3
    /\ ciph.key0 = DEFAULT_KEY
    /\ ciph.data.key # ciph.key0

----------------------------------------------------------------------------
(* The driver of sans_io::Writer3: it registers input.entries, writes the     *)
(* header and the table, then the data of each file in chunks                 *)

\* archive keys k with (k - 3) a multiple of 9, given to Writer3::new: 0x694E, 3, 12
\* and 0xDEADCAFF
Writer3Keys == { <<78, 105, 0, 0>>, <<3, 0, 0, 0>>, <<12, 0, 0, 0>>, <<255, 202, 173, 222>> }

\* archive keys of every kind: also 0 and 2 (k - 3 wraps), 4, 11, 0xDEADCAFE, 0xFFFFFFFF
SeedKeys ==
    Writer3Keys \cup { <<0, 0, 0, 0>>, <<2, 0, 0, 0>>, <<4, 0, 0, 0>>, <<11, 0, 0, 0>>,
                       DEFAULT_KEY, <<255, 255, 255, 255>> }

\* the key of the i-th file (0-based)
FileKey3(i) == IF i % 2 = 0 THEN <<21, 205, 91, 7>> ELSE <<255, 0, 128, 1>>

Writer3Input(entries) ==
    [entries |-> entries, added |-> 0, idx |-> 0, off |-> 0, sel |-> 0]

RoundTrip3Init ==
    /\ mode = "Writer3"
    /\ stream = <<>> /\ tpos = 0
    /\ wr = Idle /\ rd = Idle /\ rd3 = Idle /\ brd = Idle
    /\ op = "new" /\ ret = NoRet /\ log = <<>> /\ ciph = Idle
    /\ \E key \in Writer3Keys : wr3 = Writer3_new(key)
    /\ \E entries \in EntryLists : input = Writer3Input(entries)

W3_AddFile ==
    /\ mode = "Writer3"
    /\ input.added < Len(input.entries)
    /\ LET e == input.entries[input.added + 1]
           res == Writer3_add_file(wr3, e.name, Len(e.data), FileKey3(input.added))
       IN  wr3' = res.w /\ ret' = res.ret
    /\ input' = [input EXCEPT !.added = @ + 1]
    /\ op' = "add_file"
    /\ UNCHANGED <<mode, stream, tpos, wr, rd, rd3, brd, log, ciph>>

W3_StepWriteHeader ==
    /\ mode = "Writer3"
    /\ LET res == Writer3_step_write_header(wr3)
       IN  wr3' = res.w /\ ret' = res.ret
    /\ op' = "step_write_header"
    /\ UNCHANGED <<mode, stream, tpos, wr, rd, rd3, brd, log, input, ciph>>

W3_StepWriteFileHeaders ==
    /\ mode = "Writer3"
    /\ input.added = Len(input.entries)
    /\ LET res == Writer3_step_write_file_headers(wr3)
       IN  wr3' = res.w /\ ret' = res.ret
    /\ op' = "step_write_file_headers"
    /\ UNCHANGED <<mode, stream, tpos, wr, rd, rd3, brd, log, input, ciph>>

\* the data is given once the table is staged, as writer3.rs:126 does
W3_StepWriteFileData(n) ==
    /\ mode = "Writer3" /\ wr3.state.tag = "FileData"
    /\ input.added = Len(input.entries)
    /\ input.idx < Len(input.entries)
    /\ LET e == input.entries[input.idx + 1]
           res == Writer3_step_write_file_data(wr3, input.idx, Slice(e.data, input.off, n))
       IN  /\ input.off + n <= Len(e.data)
           /\ wr3' = res.w /\ ret' = res.ret
           /\ input' = IF res.ret.type # "Done" THEN input
                       ELSE IF input.off + n = Len(e.data)
                       THEN [input EXCEPT !.idx = @ + 1, !.off = 0]
                       ELSE [input EXCEPT !.off = @ + n]
    /\ op' = "step_write_file_data"
    /\ UNCHANGED <<mode, stream, tpos, wr, rd, rd3, brd, log, ciph>>

\* the adapter writes n staged bytes to the transport and consumes them
W3_Write(n) ==
    /\ mode = "Writer3"
    /\ n >= 1 /\ n <= Len(wr3.buffer)
    /\ stream' = stream \o SubSeq(wr3.buffer, 1, n)
    /\ wr3' = Writer3_consume(wr3, n)
    /\ op' = "consume" /\ ret' = NoRet
    /\ UNCHANGED <<mode, tpos, wr, rd, rd3, brd, log, input, ciph>>

\* everything is written: a Reader3 is created over the transport's bytes
W3_StartReader ==
    /\ mode = "Writer3"
    /\ wr3.state.tag = "FileData"
    /\ input.idx = Len(input.entries)
    /\ wr3.buffer = <<>>
    /\ mode' = "Reader3Loop"
    /\ rd3' = Reader3_new
    /\ tpos' = 0
    /\ op' = "new" /\ ret' = NoRet
    /\ UNCHANGED <<stream, wr, wr3, rd, brd, log, input, ciph>>

----------------------------------------------------------------------------
(* The driver of sans_io::Reader3, in the modes "Reader3" and "Reader3Loop"   *)

IsReader3 == mode \in {"Reader3", "Reader3Loop"}

MayCall3(step) == mode = "Reader3Loop" /\ Pending => op = step /\ ret.type # "Seek"

LogFile3(h) ==
    [kind |-> "file", name |-> h.name, size |-> h.size, data |-> <<>>, key |-> h.key,
     offset |-> h.offset]

\* the FileHeader3 of a logged header
FileHeader3Of(e) == [name |-> e.name, size |-> e.size, key |-> e.key, offset |-> e.offset]

R3_StepReadHeader ==
    /\ IsReader3 /\ MayCall3("step_read_header")
    /\ LET res == Reader3_step_read_header(rd3)
       IN  rd3' = res.r /\ ret' = res.ret /\ log' = LogResult(log, res.ret)
    /\ op' = "step_read_header"
    /\ UNCHANGED <<mode, stream, tpos, wr, rd, wr3, brd, input, ciph>>

R3_StepReadFileHeader ==
    /\ IsReader3 /\ MayCall3("step_read_file_header")
    /\ LET res == Reader3_step_read_file_header(rd3)
       IN  /\ rd3' = res.r /\ ret' = res.ret
           /\ log' = IF res.ret.type = "Done"
                     THEN IF res.ret.value = None THEN LogOnce(log, "end")
                          ELSE Append(log, LogFile3(res.ret.value[1]))
                     ELSE LogResult(log, res.ret)
    /\ op' = "step_read_file_header"
    /\ UNCHANGED <<mode, stream, tpos, wr, rd, wr3, brd, input, ciph>>

\* the data of the i-th logged header is read, into a buffer of output_len bytes;
\* the driver reads a file while it has fewer bytes of it than its size
R3_StepReadFileData(i, output_len) ==
    /\ IsReader3 /\ MayCall3("step_read_file_data")
    /\ mode = "Reader3Loop" /\ Pending => input.sel = i
    /\ i \in 1..Len(log) /\ log[i].kind = "file"
    /\ Len(log[i].data) < log[i].size
    /\ LET res == Reader3_step_read_file_data(rd3, FileHeader3Of(log[i]), output_len)
       IN  /\ rd3' = res.r /\ ret' = res.ret
           /\ log' = IF res.ret.type = "Done" THEN [log EXCEPT ![i].data = @ \o res.out]
                     ELSE LogResult(log, res.ret)
    /\ input' = [input EXCEPT !.sel = i]
    /\ op' = "step_read_file_data"
    /\ UNCHANGED <<mode, stream, tpos, wr, rd, wr3, brd, ciph>>

\* the transport hands over n more bytes (a short read, or all it has left)
R3_Fill(n) ==
    /\ IsReader3
    /\ ret.type = "Read"
    /\ n >= 1 /\ n <= ret.n /\ tpos + n <= Len(stream) /\ n <= available_space(rd3.buffer)
    /\ rd3' = Reader3_fill(rd3, Slice(stream, tpos, n))
    /\ tpos' = tpos + n
    /\ ret' = [type |-> "Filled"]
    /\ UNCHANGED <<mode, stream, wr, rd, wr3, brd, op, log, input, ciph>>

\* the driver seeks the transport as asked and tells the reader
R3_FinishSeek ==
    /\ IsReader3
    /\ ret.type = "Seek"
    /\ rd3' = Reader3_finish_seek(rd3, ret.position)
    /\ tpos' = ret.position
    /\ ret' = [type |-> "Sought"]
    /\ UNCHANGED <<mode, stream, wr, rd, wr3, brd, op, log, input, ciph>>

Reader3Next ==
    \/ R3_StepReadHeader
    \/ R3_StepReadFileHeader
    \/ \E i \in 1..MaxEntries, n \in 1..MaxChunk : R3_StepReadFileData(i, n)
    \/ \E n \in 1..MaxChunk : R3_Fill(n)
    \/ R3_Fill(Min(ret.n, Len(stream) - tpos))
    \/ R3_FinishSeek

RoundTrip3Next ==
    \/ W3_AddFile
    \/ W3_StepWriteHeader
    \/ W3_StepWriteFileHeaders
    \/ \E n \in 0..MaxChunk : W3_StepWriteFileData(n)
    \/ W3_StepWriteFileData(Len(input.entries[input.idx + 1].data) - input.off)
    \/ W3_Write(1)
    \/ W3_Write(Len(wr3.buffer))
    \/ W3_StartReader
    \/ Reader3Next

SpecRoundTrip3 == RoundTrip3Init /\ [][RoundTrip3Next]_vars

----------------------------------------------------------------------------
(* The header of format 3 alone: Writer3 writes it for a key, Reader3 reads it *)

Key3Init ==
    /\ mode = "Writer3"
    /\ stream = <<>> /\ tpos = 0
    /\ wr = Idle /\ rd = Idle /\ rd3 = Idle /\ brd = Idle
    /\ op = "new" /\ ret = NoRet /\ log = <<>> /\ ciph = Idle
    /\ \E key \in SeedKeys : wr3 = Writer3_new(key)
    /\ input = Writer3Input(<<>>)

\* the header is on the transport: a Reader3 is created over it
K3_StartReader ==
    /\ mode = "Writer3"
    /\ wr3.state.tag = "FileHeader"
    /\ wr3.buffer = <<>>
    /\ mode' = "Reader3Loop"
    /\ rd3' = Reader3_new
    /\ tpos' = 0
    /\ op' = "new" /\ ret' = NoRet
    /\ UNCHANGED <<stream, wr, wr3, rd, brd, log, input, ciph>>

Key3Next ==
    \/ W3_StepWriteHeader
    \/ W3_Write(1)
    \/ W3_Write(Len(wr3.buffer))
    \/ K3_StartReader
    \/ R3_StepReadHeader
    \/ \E n \in 1..MaxChunk : R3_Fill(n)
    \/ R3_Fill(Min(ret.n, Len(stream) - tpos))

SpecKey3 == Key3Init /\ [][Key3Next]_vars

\* C2: for every key k given to Writer3::new, the seed step_write_header stages is the
\* inverse of the read-side derivation: Reader3::step_read_header over the written
\* header gives key() = Some(k).
C2_KeyRoundTrip ==
    mode = "Reader3Loop" /\ Reader3_key(rd3) # None => Reader3_key(rd3) = Some(wr3.key)

----------------------------------------------------------------------------
(* Archives as byte streams: well-formed ones, truncated ones, ones with      *)
(* trailing bytes and ones with a bad header                                  *)

RECURSIVE Writer3_add_files(_, _, _)
Writer3_add_files(w, entries, i) ==
    IF i >= Len(entries) THEN w
    ELSE Writer3_add_files(
             Writer3_add_file(w, entries[i + 1].name, Len(entries[i + 1].data), FileKey3(i)).w,
             entries, i + 1)

RECURSIVE Writer3_write_data(_, _, _)
Writer3_write_data(w, entries, i) ==
    IF i >= Len(entries) THEN w
    ELSE Writer3_write_data(Writer3_step_write_file_data(w, i, entries[i + 1].data).w,
                            entries, i + 1)

\* the bytes sans_io::Writer3 stages for the entries under the archive key
Encode3(key, entries) ==
    LET added == Writer3_add_files(Writer3_new(key), entries, 0)
        table == Writer3_step_write_file_headers(added).w
    IN  Writer3_write_data(table, entries, 0).buffer

Prefixes(s) == { SubSeq(s, 1, n) : n \in 0..(Len(s) - 1) }

SetByte(s, i, b) == [s EXCEPT ![i] = b]

TwoEntries == << Entry(<<65>>, <<7>>), Entry(<<97, 98>>, <<1, 2, 3, 4, 250>>) >>

\* a header with a wrong magic, a wrong version, or both
BadHeaders(s) ==
    { SetByte(s, 1, 88), SetByte(s, MAGIC_LEN + 1, 2),
      SetByte(SetByte(s, 1, 88), MAGIC_LEN + 1, 2) }

\* a format-1 archive that announces version 3
WrongFormat1 == SetByte(Encode1(TwoEntries), MAGIC_LEN + 1, VERSION3)

\* an archive whose only entry has the name byte 0xFF, which is not UTF-8
BadName1 == Encode1(<< Entry(<<255>>, <<5>>) >>)

\* an archive whose only record announces a name of 5000 bytes
LongName1 == Encode1(<<>>) \o crypt_u32(DEFAULT_KEY, U32(5000)).n

Streams1 ==
    { Encode1(entries) : entries \in EntryLists }
        \cup Prefixes(Encode1(TwoEntries))
        \cup { Encode1(entries) \o t :
                   entries \in { <<>>, <<Entry(<<65>>, <<7>>)>> }, t \in { <<1>>, <<1, 2, 3>> } }
        \cup BadHeaders(Encode1(TwoEntries))
        \cup { BadName1, LongName1, WrongFormat1 }

Archive3 == Encode3(<<78, 105, 0, 0>>, << Entry(<<65>>, <<7>>), Entry(<<66>>, <<200, 100>>) >>)

Streams3 ==
    { Archive3, Encode3(<<255, 202, 173, 222>>, <<TwoEntries[1]>>) }
        \cup { SubSeq(Archive3, 1, n) : n \in 0..(HEADER_LEN3 + 4 * U32_LEN + 1) }
        \cup BadHeaders(Archive3)
        \cup { SetByte(Archive3, MAGIC_LEN + 1, VERSION) }
        \cup { MAGIC \o <<VERSION3>> \o seed : seed \in SeedKeys }

\* the blocking Reader takes both formats
StreamsIo == (Streams1 \ { WrongFormat1 }) \cup { Encode3(<<78, 105, 0, 0>>, <<TwoEntries[1]>>) }

----------------------------------------------------------------------------
(* The readers over a given byte stream.  Mode "Reader" drives sans_io::Reader *)
(* and mode "Reader3" sans_io::Reader3, any step at any time; mode "Blocking" *)
(* drives the blocking Reader over a transport that hands over at most `fuel` *)
(* bytes per call and whose seek may fail with WouldBlock.                    *)

ReadInit ==
    /\ mode \in { "Reader", "Reader3", "Blocking" }
    /\ stream \in (IF mode = "Reader" THEN Streams1
                   ELSE IF mode = "Reader3" THEN Streams3 ELSE StreamsIo)
    /\ tpos = 0
    /\ wr = Idle /\ wr3 = Idle /\ ciph = Idle
    /\ rd = (IF mode = "Reader" THEN Reader_new ELSE Idle)
    /\ rd3 = (IF mode = "Reader3" THEN Reader3_new ELSE Idle)
    /\ brd = (IF mode = "Blocking" THEN IoReader_new ELSE Idle)
    /\ op = "new" /\ ret = NoRet /\ log = <<>>
    /\ input = Writer3Input(<<>>)

\* the amounts of fuel of one call: none, a few bytes, or more than the stream has
Fuels == (0..MaxChunk) \cup { Len(stream) + 1 }

\* WouldBlock is the transport's retry signal and InvalidState the caller's error:
\* neither is a result about the archive
LogIo(l, res) ==
    IF res.type = "Err" /\ res.error.kind \in { "WouldBlock", "InvalidState" } THEN l
    ELSE LogResult(l, res)

\* the result of read_entry: an entry, the end of the archive, or an error
LogEntry(l, res) ==
    IF res.type # "Ok" THEN LogIo(l, res)
    ELSE IF res.value = None THEN LogOnce(l, "end")
    ELSE Append(l, LogFile(res.value[1].file_name, res.value[1].size))

B_ReadHeader(fuel, seek_ok) ==
    /\ mode = "Blocking" /\ ret.type # "Panic"
    /\ LET res == IoReader_read_header(brd, stream, tpos, fuel, seek_ok)
       IN  /\ brd' = [res.r EXCEPT !.entry = None]
           /\ tpos' = res.pos
           /\ ret' = res.ret
           /\ log' = LogIo(log, res.ret)
    /\ op' = "read_header"
    /\ UNCHANGED <<mode, stream, wr, rd, wr3, rd3, input, ciph>>

\* the Entry of the previous call is dropped; a new one borrows the transport
B_ReadEntry(fuel, seek_ok) ==
    /\ mode = "Blocking" /\ ret.type # "Panic"
    /\ LET res == IoReader_read_entry([brd EXCEPT !.entry = None], stream, tpos, fuel, seek_ok)
       IN  /\ brd' = res.r
           /\ tpos' = res.pos
           /\ ret' = res.ret
           /\ log' = LogEntry(log, res.ret)
    /\ op' = "read_entry"
    /\ UNCHANGED <<mode, stream, wr, rd, wr3, rd3, input, ciph>>

\* Entry::read into a buffer of buf_len bytes
B_EntryRead(buf_len, fuel) ==
    /\ mode = "Blocking" /\ ret.type # "Panic"
    /\ brd.entry # None
    /\ LET res == Entry_read(brd.entry[1], buf_len, stream, tpos, fuel)
       IN  /\ brd' = [brd EXCEPT !.entry = Some(res.e)]
           /\ tpos' = res.pos
           /\ ret' = res.ret
           /\ log' = LogData(log, res.out)
    /\ op' = "read"
    /\ UNCHANGED <<mode, stream, wr, rd, wr3, rd3, input, ciph>>

BlockingNext ==
    \/ \E fuel \in Fuels, seek_ok \in BOOLEAN : B_ReadHeader(fuel, seek_ok)
    \/ \E fuel \in Fuels, seek_ok \in BOOLEAN : B_ReadEntry(fuel, seek_ok)
    \/ \E buf_len \in 1..MaxChunk, fuel \in Fuels : B_EntryRead(buf_len, fuel)

ReadNext ==
    \/ ReaderNext
    \/ Reader3Next
    \/ BlockingNext

SpecRead == ReadInit /\ [][ReadNext]_vars

----------------------------------------------------------------------------
(* Reference runs: a reader over the stream with every read handing over all  *)
(* the bytes that are left, every seek serviced, the data of every entry      *)
(* either skipped or read in full                                             *)

\* the steps a reference run may take
RunBudget == 4 * (MaxEntries + 1)

\* the headers, ends and errors of a log, without the data
Headers(l) == [i \in 1..Len(l) |-> [l[i] EXCEPT !.data = <<>>]]

RECURSIVE Reader_run(_, _, _, _, _, _, _)
\* sans_io::Reader driven as reader_smoke drives the blocking Reader: headers
\* until the stream has no more bytes or an error is returned; read_all: the data
\* of an entry is read before the next header
Reader_run(r, s, pos, l, phase, read_all, n) ==
    LET res == IF phase = "data" THEN Reader_step_read_file_data(r, Len(s) + 1)
               ELSE Reader_step_read_file_header(r) @@ [out |-> <<>>]
        t == res.ret.type
    IN  IF n = 0 THEN l
        ELSE IF t = "Read"
            THEN IF Avail(s, pos) = 0 THEN l
                 ELSE Reader_run(Reader_fill(res.r, Slice(s, pos, Avail(s, pos))), s, Len(s),
                                 l, phase, read_all, n - 1)
        ELSE IF t = "Seek"
            THEN Reader_run(Reader_finish_seek(res.r), s, res.ret.position, l, phase,
                            read_all, n - 1)
        ELSE IF t # "Done" THEN LogResult(l, res.ret)
        ELSE IF phase = "data"
            THEN Reader_run(res.r, s, pos, LogData(l, res.out),
                            IF res.r.state.remaining = 0 THEN "header" ELSE "data",
                            read_all, n - 1)
        ELSE Reader_run(res.r, s, pos,
                        Append(l, LogFile(res.ret.value.name, res.ret.value.size)),
                        IF read_all /\ res.ret.value.size > 0 THEN "data" ELSE "header",
                        read_all, n - 1)

RECURSIVE IoReader_run(_, _, _, _, _, _, _)
\* the blocking Reader over a transport that never blocks: read_header, then
\* read_entry until it returns the end, an I/O error or a panic
IoReader_run(r, s, pos, l, phase, read_all, n) ==
    LET fuel == Len(s) + 1
        h == IoReader_read_header(r, s, pos, fuel, TRUE)
        e == IoReader_read_entry([r EXCEPT !.entry = None], s, pos, fuel, TRUE)
        d == Entry_read(r.entry[1], fuel, s, pos, fuel)
        last == \/ e.ret.type = "Panic"
                \/ e.ret.type = "Ok" /\ e.ret.value = None
                \/ e.ret.type = "Err" /\ e.ret.error.kind = "UnexpectedEof"
    IN  IF n = 0 THEN l
        ELSE IF phase = "header"
            THEN IF h.ret.type = "Ok" THEN IoReader_run(h.r, s, h.pos, l, "entry", read_all, n - 1)
                 ELSE LogIo(l, h.ret)
        ELSE IF phase = "entry"
            THEN IF last THEN LogEntry(l, e.ret)
                 ELSE IoReader_run(e.r, s, e.pos, LogEntry(l, e.ret),
                                   IF read_all /\ e.ret.type = "Ok" /\ e.r.entry[1].size > 0
                                   THEN "data" ELSE "entry",
                                   read_all, n - 1)
        ELSE IoReader_run([r EXCEPT !.entry = Some(d.e)], s, d.pos, LogData(l, d.out),
                          IF d.e.limit = 0 \/ d.ret.value = 0 THEN "entry" ELSE "data",
                          read_all, n - 1)

\* what the format-1 reader of the mode returns for the stream
Reference(read_all) ==
    IF mode = "Reader"
    THEN Headers(Reader_run(Reader_new, stream, 0, <<>>, "header", read_all, RunBudget))
    ELSE Headers(IoReader_run(IoReader_new, stream, 0, <<>>, "header", read_all, RunBudget))

\* the transport has no more bytes at its position
AtEof == Avail(stream, tpos) = 0

\* the reader has returned its last result: an error or the end of the stream
Complete ==
    \/ /\ mode = "Reader"
       /\ op = "step_read_file_header"
       /\ ret.type = "Err" \/ (ret.type = "Read" /\ AtEof)
    \/ /\ mode = "Blocking"
       /\ op = "read_entry"
       /\ \/ ret.type = "Panic"
          \/ ret.type = "Ok" /\ ret.value = None
          \/ ret.type = "Err" /\ ret.error.kind = "UnexpectedEof"
    \/ /\ mode = "Blocking"
       /\ op = "read_header"
       /\ ret.type = "Err" /\ ret.error.kind # "WouldBlock"

\* the bytes a reader holds are the bytes of the stream before the transport's position
Conserved ==
    /\ mode = "Reader" =>
          /\ rd.buffer = Slice(stream, rd.position, Len(rd.buffer))
          /\ tpos = rd.position + Len(rd.buffer)
    /\ mode = "Blocking" /\ "buffer" \in DOMAIN brd.state
            /\ Len(brd.state.buffer.data) = brd.state.buffer.position =>
          brd.state.buffer.data
              = Slice(stream, tpos - brd.state.buffer.position, brd.state.buffer.position)

\* C3: for a fixed stream the headers, end and errors the format-1 readers return are
\* those of the run fed in one large chunk, however the transport splits the stream
\* into reads and retries; the bytes accumulated so far are kept, none lost or read
\* twice.
C3_PartialReadTolerance ==
    mode \in { "Reader", "Blocking" } =>
        /\ Conserved
        /\ IsPrefix(Headers(log), Reference(FALSE))
        /\ (Complete => Headers(log) = Reference(FALSE))

\* the blocking Reader was stopped by WouldBlock inside a four-byte field, after an entry
C3_Witness ==
    /\ mode = "Blocking"
    /\ op = "read_entry"
    /\ ret.type = "Err" /\ ret.error.kind = "WouldBlock"
    /\ brd.state.tag = "ReadFileSize"
    /\ brd.state.buffer.position = 2
    /\ Len(log) = 1

\* C4: the headers the format-1 readers return, with all, a part or nothing of each
\* entry's data read between the header reads, are those of the run that reads all
\* the data.
C4_SkipThenReread ==
    mode \in { "Reader", "Blocking" } =>
        /\ IsPrefix(Headers(log), Reference(TRUE))
        /\ (Complete => Headers(log) = Reference(TRUE))

\* two headers were returned, nothing of the first entry read and a part of the second
C4_Witness ==
    /\ mode = "Reader"
    /\ Complete
    /\ Len(log) = 2
    /\ log[1].kind = "file" /\ log[1].size = 1 /\ log[1].data = <<>>
    /\ log[2].kind = "file" /\ log[2].size = 5 /\ Len(log[2].data) = 2

\* the blocking Reader is inside a format-1 record: a byte of the name-length field
\* was read, or the name or the data-length field is being read
InsideRecord ==
    /\ brd.version = 1
    /\ \/ brd.state.tag = "ReadFileNameSize" /\ brd.state.buffer.position > 0
       \/ brd.state.tag = "ReadFileName" /\ brd.state.buffer.position < brd.state.buffer.len
       \/ brd.state.tag = "ReadFileSize"

\* read_entry, and read_entry once more, over a transport that reports its end
EntryTwice(fuel) ==
    LET first == IoReader_read_entry([brd EXCEPT !.entry = None], stream, tpos, fuel, TRUE)
        again == IoReader_read_entry(first.r, stream, first.pos, fuel, TRUE)
    IN  [first |-> first, again |-> again]

\* C5: at the end of the stream inside a format-1 record (in the name-length field,
\* the name or the data-length field) read_entry fails with UnexpectedEof, and fails
\* again when called again; so it does after the last entry of an archive with one
\* to three trailing bytes; Ok(None) is returned only with no byte of a record read.
C5_TruncationRejected ==
    mode = "Blocking" =>
        /\ InsideRecord /\ AtEof =>
              \A fuel \in Fuels \ {0} :
                  /\ EntryTwice(fuel).first.ret = IoErr("UnexpectedEof")
                  /\ EntryTwice(fuel).again.ret = IoErr("UnexpectedEof")
        /\ brd.version = 1 /\ brd.state.tag = "SeekEntry"
                /\ Avail(stream, brd.next_entry_position) \in 1..(U32_LEN - 1) =>
              /\ EntryTwice(Len(stream) + 1).first.ret = IoErr("UnexpectedEof")
              /\ EntryTwice(Len(stream) + 1).again.ret = IoErr("UnexpectedEof")
        /\ op = "read_entry" /\ ret.type = "Ok" /\ ret.value = None =>
              tpos = brd.next_entry_position /\ AtEof

\* an entry was returned, then the one trailing byte made read_entry fail
C5_Witness ==
    /\ mode = "Blocking"
    /\ stream = Encode1(<<Entry(<<65>>, <<7>>)>>) \o <<1>>
    /\ op = "read_entry"
    /\ ret.type = "Err" /\ ret.error.kind = "UnexpectedEof"
    /\ brd.state.tag = "ReadFileNameSize" /\ brd.state.buffer.position = 1
    /\ Len(log) = 2 /\ log[1].kind = "file"

\* the blocking Reader is at the start of a format-1 record and the stream has no
\* byte of it
CleanEof ==
    /\ brd.version = 1
    /\ \/ brd.state.tag = "ReadFileNameSize" /\ brd.state.buffer.position = 0 /\ AtEof
       \/ brd.state.tag = "SeekEntry" /\ Avail(stream, brd.next_entry_position) = 0

\* C6: at the end of the stream with no byte of the next name-length field read,
\* read_entry returns Ok(None) and leaves the key as it was, and so does every
\* later call.
C6_CleanEndOfArchive ==
    mode = "Blocking" /\ CleanEof =>
        \A fuel \in Fuels \ {0} :
            /\ EntryTwice(fuel).first.ret = Ok(None)
            /\ EntryTwice(fuel).first.r.key = brd.key
            /\ EntryTwice(fuel).again.ret = Ok(None)
            /\ EntryTwice(fuel).again.r.key = brd.key
            /\ EntryTwice(fuel).again.r = EntryTwice(fuel).first.r

\* read_entry returned Ok(None) after an entry, which moved the key
C6_Witness ==
    /\ mode = "Blocking"
    /\ op = "read_entry"
    /\ ret.type = "Ok" /\ ret.value = None
    /\ Len(log) = 2 /\ log[1].kind = "file"
    /\ brd.key # DEFAULT_KEY
    /\ CleanEof

\* C7: outside the Header state step_read_header of Reader and of Reader3 returns
\* Done(()) and changes nothing: buffer, position, key and state stay as they were.
C7_HeaderReadIdempotent ==
    /\ mode = "Reader" /\ rd.state.tag # "Header" =>
          Reader_step_read_header(rd) = [r |-> rd, ret |-> Done("unit")]
    /\ mode = "Reader3" /\ rd3.state.tag # "Header" =>
          Reader3_step_read_header(rd3) = [r |-> rd3, ret |-> Done("unit")]

\* step_read_header was called in the FileData state with bytes in the buffer
C7_Witness ==
    /\ mode = "Reader"
    /\ op = "step_read_header"
    /\ ret.type = "Done"
    /\ rd.state.tag = "FileData"
    /\ rd.buffer # <<>>

\* what step_read_header is to return in the Header state for a header of
\* header_len bytes and the format's version
HeaderChecked(res, r, header_len, version) ==
    LET data == r.buffer
    IN  IF Len(data) < header_len
            THEN res = [r |-> r, ret |-> Read(header_len - Len(data))]
        ELSE IF Slice(data, 0, MAGIC_LEN) # MAGIC
            THEN res.r = r /\ res.ret.type = "Err" /\ res.ret.error.kind = "InvalidMagic"
        ELSE IF data[MAGIC_LEN + 1] # version
            THEN res.r = r /\ res.ret.type = "Err" /\ res.ret.error.kind = "InvalidVersion"
        ELSE /\ res.ret = Done("unit")
             /\ res.r.state.tag = "FileHeader"
             /\ res.r.buffer = SubSeq(data, header_len + 1, Len(data))
             /\ res.r.position = header_len

\* C8: in the Header state step_read_header asks for the missing bytes until the
\* 8 (Reader) or 12 (Reader3) header bytes are buffered; then a wrong magic is
\* InvalidMagic, checked before the version, a version other than 1 (Reader) or 3
\* (Reader3) is InvalidVersion, and only a good header is consumed, with the state
\* FileHeader; after an error nothing is consumed and the state is still Header.
C8_HeaderValidation ==
    /\ mode = "Reader" /\ rd.state.tag = "Header" =>
          HeaderChecked(Reader_step_read_header(rd), rd, HEADER_LEN, VERSION)
    /\ mode = "Reader3" /\ rd3.state.tag = "Header" =>
          HeaderChecked(Reader3_step_read_header(rd3), rd3, HEADER_LEN3, VERSION3)

\* Reader3 rejected a full header whose magic and version are both wrong
C8_Witness ==
    /\ mode = "Reader3"
    /\ op = "step_read_header"
    /\ ret.type = "Err" /\ ret.error.kind = "InvalidMagic"
    /\ rd3.state.tag = "Header"
    /\ Len(rd3.buffer) = HEADER_LEN3
    /\ rd3.buffer[MAGIC_LEN + 1] # VERSION3

\* C10: Reader3::key() is None while the state is Header; from then on it is
\* Some(seed * 9 + 3 mod 2^32), seed the little-endian u32 at bytes 8..12 of the
\* stream, in every state the steps and finish_seek lead to.
C10_Key3Derivation ==
    mode = "Reader3" =>
        IF rd3.state.tag = "Header" THEN Reader3_key(rd3) = None
        ELSE Reader3_key(rd3)
                 = Some(KeyOfSeed(Slice(stream, MAGIC_LEN + VERSION_LEN, KEY_LEN)))

\* the header came in several reads, a seek to file data was serviced and data read
C10_Witness ==
    /\ mode = "Reader3"
    /\ rd3.state.tag = "FileData"
    /\ Reader3_key(rd3) = Some(<<78, 105, 0, 0>>)
    /\ Len(log) = 2
    /\ log[2].data # <<>>
    /\ op = "step_read_file_header" /\ ret.type = "Sought"

----------------------------------------------------------------------------
(* sans_io::Reader3 over a given byte stream, driven as an adapter drives it: *)
(* a step that returned Read or Seek is called again, the request satisfied,  *)
(* until it is done; then any other step may follow                           *)

\* a format-3 archive (seed 0, key 3) whose first table record announces a name of 5000
\* bytes, and ends there
LongName3 ==
    LET key == <<3, 0, 0, 0>>
    IN  SubSeq(Encode3(key, <<>>), 1, HEADER_LEN3)
            \o U32Xor(U32(100), key) \o U32Xor(U32(1), key) \o U32Xor(U32(7), key)
            \o U32Xor(U32(5000), key)

Reader3LoopInit ==
    /\ mode = "Reader3Loop"
    /\ stream \in Streams3 \cup {LongName3}
    /\ tpos = 0
    /\ wr = Idle /\ wr3 = Idle /\ ciph = Idle /\ rd = Idle /\ brd = Idle
    /\ rd3 = Reader3_new
    /\ op = "new" /\ ret = NoRet /\ log = <<>>
    /\ input = Writer3Input(<<>>)

SpecReader3 == Reader3LoopInit /\ [][Reader3Next]_vars

\* C11: every byte step_read_file_data returns for a header is the decryption of a
\* stream byte at a position in [header.offset, header.offset + header.size), after
\* any steps with every Seek serviced, and no more than header.size bytes of a file
\* are delivered.
C11_DataConfined ==
    mode = "Reader3Loop" /\ op = "step_read_file_data" /\ ret.type = "Done"
            /\ ret.value > 0 =>
        /\ log[input.sel].offset <= rd3.position - ret.value
        /\ rd3.position <= log[input.sel].offset + log[input.sel].size
        /\ Len(log[input.sel].data) <= log[input.sel].size

----------------------------------------------------------------------------
(* reader3.rs: Reader3<R> over a Cursor holding an archive Writer3 produced.  *)
(* read_file is called until it returns None, then the files are read with    *)
(* File3::read in any order, each one until read returns 0. The loops of      *)
(* read_file and File3::read are taken one step of the state machine at a time *)

\* entries: the files the archive was written from; sel: the file being read (0: none);
\* done: the files read to their end
Files3Input(entries) == [entries |-> entries, sel |-> 0, done |-> {}]

\* the archives Writer3 stages, each with the entries it was written from
Archives3 ==
    { [stream |-> Encode3(key, entries), entries |-> entries] :
          key \in Writer3Keys, entries \in EntryLists }

Files3Init ==
    /\ mode = "Files3"
    /\ \E a \in Archives3 : stream = a.stream /\ input = Files3Input(a.entries)
    /\ tpos = 0
    /\ wr = Idle /\ wr3 = Idle /\ ciph = Idle /\ rd = Idle /\ brd = Idle
    /\ rd3 = Reader3_new
    /\ op = "new" /\ ret = NoRet /\ log = <<>>

TableRead == log # <<>> /\ log[Len(log)].kind = "end"

\* a step of a loop may be taken: the loop before it has returned, or it is this loop's
\* next turn (its Read or Seek has been satisfied)
InLoop(step) == ret.type \in {"None", "Done"} \/ (op = step /\ ret.type \in {"Filled", "Sought"})

\* Reader3::read_file, one turn of its loop; it is called until it has returned None
F3_ReadFile ==
    /\ mode = "Files3" /\ ~TableRead
    /\ InLoop("read_file")
    /\ LET res == Reader3_step_read_file_header(rd3)
       IN  /\ rd3' = res.r /\ ret' = res.ret
           /\ log' = IF res.ret.type = "Done"
                     THEN IF res.ret.value = None THEN LogOnce(log, "end")
                          ELSE Append(log, LogFile3(res.ret.value[1]))
                     ELSE LogResult(log, res.ret)
    /\ op' = "read_file"
    /\ UNCHANGED <<mode, stream, tpos, wr, rd, wr3, brd, input, ciph>>

\* File3::read on the i-th file of the table, into a buffer of buf_len bytes, one turn
\* of its loop; a file that was begun is read to its end before another one is
F3_Read(i, buf_len) ==
    /\ mode = "Files3" /\ TableRead
    /\ InLoop("File3_read")
    /\ i \in 1..Len(log) /\ log[i].kind = "file"
    /\ i \notin input.done
    /\ input.sel \in {0, i}
    /\ LET res == Reader3_step_read_file_data(rd3, FileHeader3Of(log[i]), buf_len)
           end == res.ret.type = "Done" /\ res.ret.value = 0
       IN  /\ rd3' = res.r /\ ret' = res.ret
           /\ log' = IF res.ret.type = "Done" THEN [log EXCEPT ![i].data = @ \o res.out]
                     ELSE LogResult(log, res.ret)
           /\ input' = [input EXCEPT !.sel = IF end THEN 0 ELSE i,
                                     !.done = IF end THEN @ \cup {i} ELSE @]
    /\ op' = "File3_read"
    /\ UNCHANGED <<mode, stream, tpos, wr, rd, wr3, brd, ciph>>

\* Read(size): the Cursor's read(&mut space[..size]), then fill(n)
F3_Fill ==
    /\ mode = "Files3"
    /\ ret.type = "Read"
    /\ LET n == Min(ret.n, Len(stream) - tpos)
       IN  /\ n >= 1
           /\ rd3' = Reader3_fill(rd3, Slice(stream, tpos, n))
           /\ tpos' = tpos + n
    /\ ret' = [type |-> "Filled"]
    /\ UNCHANGED <<mode, stream, wr, rd, wr3, brd, op, log, input, ciph>>

\* Seek(position): the Cursor's seek(SeekFrom::Start(position)), then finish_seek
F3_FinishSeek ==
    /\ mode = "Files3"
    /\ ret.type = "Seek"
    /\ rd3' = Reader3_finish_seek(rd3, ret.position)
    /\ tpos' = ret.position
    /\ ret' = [type |-> "Sought"]
    /\ UNCHANGED <<mode, stream, wr, rd, wr3, brd, op, log, input, ciph>>

Files3Next ==
    \/ F3_ReadFile
    \/ \E i \in 1..MaxEntries, n \in 1..MaxChunk : F3_Read(i, n)
    \/ F3_Fill
    \/ F3_FinishSeek

SpecFiles3 == Files3Init /\ [][Files3Next]_vars

\* C12: once the table has been read, reading the files in any order, every Seek
\* serviced, yields for each file exactly header.size bytes, equal to the plaintext
\* the file was written from: nothing of the file read before leaks into the next.
C12_RandomAccess ==
    mode = "Files3" =>
        \A i \in input.done :
            /\ Len(log[i].data) = log[i].size
            /\ log[i].data = input.entries[i].data

----------------------------------------------------------------------------
(* Format 1: the data of an entry *)

\* the header logged last, while the reader is in its data
Current == log[Len(log)]

\* C13: the bytes step_read_file_data (and Entry::read) returned for a header of size s
\* are at most s; what was returned and what remains add up to s, so a short read
\* leaves the rest to later calls; a call returns min(buffered, output length,
\* remaining) bytes, and Done(0) once s bytes were returned.
C13_SizeBoundsData ==
    /\ mode \in {"Reader", "Blocking"} =>
           \A i \in 1..Len(log) : log[i].kind = "file" => Len(log[i].data) <= log[i].size
    /\ mode = "Reader" /\ rd.state.tag = "FileData" =>
           /\ Current.kind = "file"
           /\ Len(Current.data) + rd.state.remaining = Current.size
           /\ \A n \in 1..MaxChunk :
                  LET res == Reader_step_read_file_data(rd, n)
                      len == Min(Min(Len(rd.buffer), n), rd.state.remaining)
                  IN  /\ rd.state.remaining = 0 => res.ret = Done(0) /\ res.r = rd
                      /\ rd.state.remaining > 0 /\ rd.buffer # <<>> =>
                             /\ res.ret = Done(len) /\ Len(res.out) = len
                             /\ res.r.state.remaining = rd.state.remaining - len
    /\ mode = "Blocking" /\ brd.entry # None /\ Current.kind = "file" =>
           Len(Current.data) + brd.entry[1].limit = Current.size

\* all the data of an entry of several bytes was returned, in more than one call, and
\* a further call returned Done(0) although more bytes are buffered
C13_Witness ==
    /\ mode = "Reader" /\ op = "step_read_file_data" /\ ret = Done(0)
    /\ rd.state.tag = "FileData" /\ rd.state.remaining = 0
    /\ Current.kind = "file" /\ Current.size > MaxChunk /\ Len(Current.data) = Current.size
    /\ rd.buffer # <<>>

RECURSIVE HeaderWords(_)
\* the key rotations of the headers logged: one for the name length, one for each
\* name byte, one for the data length
HeaderWords(l) ==
    IF l = <<>> THEN 0
    ELSE (IF Head(l).kind = "file" THEN Len(Head(l).name) + 2 ELSE 0) + HeaderWords(Tail(l))

\* C14: step_read_file_data never modifies the archive-wide rotating key: the key that
\* decrypts the next header depends on the headers parsed alone, however many bytes of
\* data were read; the (key, counter) the data is decrypted with is a copy of it taken
\* when the header was parsed, advanced by the data read since.
C14_KeySnapshot ==
    mode = "Reader" /\ rd.state.tag # "Header" =>
        /\ rd.key = RotateN(DEFAULT_KEY, HeaderWords(log))
        /\ \A n \in 1..MaxChunk : Reader_step_read_file_data(rd, n).r.key = rd.key
        /\ rd.state.tag = "FileData" =>
               /\ rd.state.key = RotateN(rd.key, Len(Current.data) \div 4)
               /\ rd.state.counter = Len(Current.data) % 4

\* the second header was parsed after four of the five data bytes of the first entry
\* were read: the data key had rotated
C14_Witness ==
    /\ mode = "Reader" /\ op = "step_read_file_header" /\ ret.type = "Done"
    /\ Len(log) = 2 /\ log[1].kind = "file" /\ log[2].kind = "file"
    /\ log[1].size = 5 /\ Len(log[1].data) = 4

\* C15: step_read_file_header returns Seek(next_file_position) exactly when the reader
\* is in FileData with position # next_file_position, and then changes nothing; after
\* finish_seek the position is next_file_position and the buffer is empty, and the next
\* step_read_file_header asks for no Seek but goes on to the header at that position.
C15_SeekOnResume ==
    mode = "Reader" =>
        LET res == Reader_step_read_file_header(rd)
            behind == rd.state.tag = "FileData" /\ rd.position # rd.next_file_position
        IN  /\ res.ret.type = "Seek" <=> behind
            /\ behind => res.ret = Seek(rd.next_file_position) /\ res.r = rd
            /\ ret.type = "Sought" =>
                   /\ rd.position = rd.next_file_position /\ rd.buffer = <<>>
                   /\ tpos = rd.position
                   /\ res.ret = Read(U32_LEN)
                   /\ res.r = [rd EXCEPT !.state = [tag |-> "FileHeader"]]

\* the seek asked for after a part of an entry's data was read has been serviced
C15_Witness ==
    /\ mode = "Reader" /\ op = "step_read_file_header" /\ ret.type = "Sought"
    /\ rd.state.tag = "FileData" /\ rd.state.remaining > 0
    /\ Current.kind = "file" /\ Current.data # <<>>

\* C16: finish_seek panics in every state in which the most recent step did not return
\* a Seek: right after a file header, in the middle of the data, after a Read.
C16_FinishSeekPanics ==
    mode = "Reader" /\ ret.type # "Seek" => Reader_finish_seek_panics(rd)

----------------------------------------------------------------------------
(* Format 3: the end of the table, and the length of a name *)

\* the record prefix at the table position is buffered and its offset field, XORed with
\* the static key, is 0
AtTerminator ==
    /\ rd3.state.tag # "Header"
    /\ rd3.next_file_header_position = Some(rd3.position)
    /\ Len(rd3.buffer) >= 4 * U32_LEN
    /\ U32Xor(SubSeq(rd3.buffer, 1, U32_LEN), rd3.key[1]) = U32(0)

\* C17: at a record prefix whose offset decrypts to 0 step_read_file_header consumes
\* exactly its 16 bytes and returns Done(None); from then on every step_read_file_header
\* returns Done(None) at once, with no Read or Seek and no change, whatever
\* step_read_file_data calls come in between.
C17_TableTerminator ==
    mode = "Reader3" =>
        LET res == Reader3_step_read_file_header(rd3)
        IN  /\ AtTerminator =>
                   /\ res.ret = Done(None)
                   /\ res.r = [rd3 EXCEPT !.buffer = SubSeq(@, 4 * U32_LEN + 1, Len(@)),
                                          !.position = @ + 4 * U32_LEN,
                                          !.next_file_header_position = None]
            /\ (\E i \in 1..Len(log) : log[i].kind = "end") =>
                   /\ rd3.next_file_header_position = None
                   /\ res.ret = Done(None) /\ res.r = rd3

\* step_read_file_header returned Done(None) again after the end of the table, with the
\* reader inside the data of a file
C17_Witness ==
    /\ mode = "Reader3" /\ op = "step_read_file_header" /\ ret = Done(None)
    /\ TableRead
    /\ rd3.state.tag = "FileData" /\ rd3.position > log[1].offset

\* the name length of the record prefix buffered at the table position
NameLen3 == U32Xor(SubSeq(rd3.buffer, 3 * U32_LEN + 1, 4 * U32_LEN), rd3.key[1])

\* C18: step_read_file_header of Reader3 fails with FileNameTooLong whenever the
\* decrypted name length exceeds the maximum, before it asks for the name bytes.
C18_NameTooLong3 ==
    /\ mode = "Reader3Loop" /\ op = "step_read_file_header"
    /\ ret.type \in {"Read", "Done", "Err"}
    /\ rd3.state.tag # "Header"
    /\ rd3.next_file_header_position = Some(rd3.position)
    /\ Len(rd3.buffer) >= 4 * U32_LEN
    /\ U32Gt(NameLen3, MAX_FILE_NAME_LEN_USIZE)
    => ret.type = "Err" /\ ret.error.kind = "FileNameTooLong"

----------------------------------------------------------------------------
(* Format 1: the cap on the length of a name, in Writer and Reader *)

\* a name of MAX_FILE_NAME_LEN + 1 bytes
LongName == [i \in 1..(MAX_FILE_NAME_LEN + 1) |-> 97]

\* entries to write: the long name alone, after an entry, and an entry alone
NameCapLists ==
    { <<Entry(LongName, <<7>>)>>, <<Entry(<<65>>, <<7>>), Entry(LongName, <<>>)>>,
      <<Entry(<<65>>, <<7>>)>> }

\* an archive whose second record announces a name of 5000 bytes
LongNameSecond1 ==
    Encode1(<<Entry(<<65>>, <<7>>)>>) \o crypt_u32(RotateN(DEFAULT_KEY, 3), U32(5000)).n

NameCapStreams == { LongName1, LongNameSecond1, Encode1(TwoEntries) }

NameCapInit ==
    /\ mode \in {"Writer", "Reader"}
    /\ tpos = 0
    /\ wr3 = Idle /\ rd3 = Idle /\ brd = Idle /\ ciph = Idle
    /\ op = "new" /\ ret = NoRet /\ log = <<>>
    /\ IF mode = "Writer"
       THEN /\ stream = <<>> /\ wr = Writer_new /\ rd = Idle
            /\ \E entries \in NameCapLists : input = WriterInput(entries)
       ELSE /\ stream \in NameCapStreams /\ wr = Idle /\ rd = Reader_new
            /\ input = WriterInput(<<>>)

SpecNameCap == NameCapInit /\ [][RoundTrip1Next]_vars

\* the name length of the record at the start of the buffer
NameLen1 == decrypt_u32(rd.key, SubSeq(rd.buffer, 1, U32_LEN)).n

----------------------------------------------------------------------------
(* Format 1: step_read_file_data with nothing to read *)

\* C20: step_read_file_data returns Done(0), consuming no buffered byte and leaving the
\* position, whenever no file header has been read yet (state FileHeader) or the
\* remaining count of the current file is 0; it never returns a Seek.
C20_NothingToRead ==
    mode = "Reader" =>
        /\ op = "step_read_file_data" => ret.type # "Seek"
        /\ \A n \in 1..MaxChunk :
               LET res == Reader_step_read_file_data(rd, n)
                   nothing == \/ rd.state.tag = "FileHeader"
                              \/ rd.state.tag = "FileData" /\ rd.state.remaining = 0
               IN  /\ res.ret.type # "Seek"
                   /\ nothing => res.ret = Done(0) /\ res.out = <<>> /\ res.r = rd

\* step_read_file_data returned Done(0) before any file header, with bytes buffered
C20_Witness ==
    /\ mode = "Reader" /\ op = "step_read_file_data" /\ ret = Done(0)
    /\ rd.state.tag = "FileHeader" /\ rd.buffer # <<>> /\ log = <<>>

----------------------------------------------------------------------------
(* writer.rs: the blocking Writer.  During one call the transport accepts at  *)
(* most `fuel` bytes and then fails with WouldBlock (the SlowWriter of the    *)
(* tests).  A call is the record x: the writer w, the bytes `out` the         *)
(* transport accepted, the position dpos of the data reader, the fuel left    *)
(* and the result ret, which is Continue while the call's loop goes on.       *)

BUFFER_SIZE == 8192

Continue == [type |-> "Continue"]

\* Buffer::new(bytes)
IoBuffer_new(bytes) == [buffer |-> bytes, position |-> 0]

IoWriter_new ==
    [key |-> DEFAULT_KEY, buffer |-> <<>>, state |-> [tag |-> "WriteMagic", buffer |-> IoBuffer_new(MAGIC)]]

Call(w, dpos, fuel) == [w |-> w, out |-> <<>>, dpos |-> dpos, fuel |-> fuel, ret |-> Continue]

\* write_all(writer, buffer, &mut position): the position is kept when the transport
\* stops accepting; `ok` tells whether the whole buffer is written
write_all(x, buffer, position) ==
    LET n == Min(x.fuel, Len(buffer) - position)
    IN  [x |-> [x EXCEPT !.out = @ \o SubSeq(buffer, position + 1, position + n),
                         !.fuel = @ - n],
         position |-> position + n,
         ok |-> position + n = Len(buffer)]

\* std's Write::write_all(buffer): what was accepted before the error is not recorded
std_write_all(x, buffer) ==
    LET n == Min(x.fuel, Len(buffer))
    IN  [x |-> [x EXCEPT !.out = @ \o SubSeq(buffer, 1, n), !.fuel = @ - n],
         ok |-> n = Len(buffer)]

\* one turn of the loop of write_header
IoWriter_write_header_turn(x) ==
    LET st == x.w.state
        m == write_all(x, st.buffer.buffer, st.buffer.position)
        v == std_write_all(x, <<VERSION>>)
    IN  IF st.tag = "WriteMagic"
            THEN IF m.ok THEN [m.x EXCEPT !.w.state = [tag |-> "WriteVersion"]]
                 ELSE [m.x EXCEPT !.w.state.buffer.position = m.position,
                                  !.ret = IoErr("WouldBlock")]
        ELSE IF st.tag = "WriteVersion"
            THEN IF v.ok THEN [v.x EXCEPT !.w.state = [tag |-> "WriteEntryStart"],
                                          !.ret = Ok("unit")]
                 ELSE [v.x EXCEPT !.ret = IoErr("WouldBlock")]
        ELSE [x EXCEPT !.ret = Ok("unit")]

RECURSIVE IoWriter_write_header_loop(_)
\* each turn works on the value the turn before left
IoWriter_write_header_loop(x) ==
    CHOOSE r \in { IF y.ret = Continue
                   THEN IoWriter_write_header_loop(IoWriter_write_header_turn(y))
                   ELSE y : y \in {x} } : TRUE

\* Writer::write_header()
IoWriter_write_header(w, fuel) == IoWriter_write_header_loop(Call(w, 0, fuel))

\* Writer::finish(): flushed tells whether the transport's flush succeeds
IoWriter_finish(w, flushed) ==
    IF w.state.tag # "WriteEntryStart" THEN Err([kind |-> "InvalidState"])
    ELSE IF flushed THEN Ok("unit") ELSE IoErr("WouldBlock")

\* State::WriteEntryStart of write_entry
IoWriter_entry_start(x, file_name, file_size) ==
    LET c1 == crypt_u32(x.w.key, U32(Len(file_name)))
        c2 == crypt_name_bytes(c1.key, file_name)
        c3 == crypt_u32(c2.key, U32(file_size))
    IN  [x EXCEPT !.w.key = c3.key,
                  !.w.buffer = c2.bytes,
                  !.w.state = [tag |-> "WriteEntry",
                               file_name_size_buffer |-> IoBuffer_new(c1.n),
                               file_name_position |-> 0,
                               file_size_buffer |-> IoBuffer_new(c3.n)]]

\* State::WriteEntry of write_entry
IoWriter_entry_header(x) ==
    LET st == x.w.state
        a == write_all(x, st.file_name_size_buffer.buffer, st.file_name_size_buffer.position)
        b == write_all(a.x, x.w.buffer, st.file_name_position)
        c == write_all(b.x, st.file_size_buffer.buffer, st.file_size_buffer.position)
    IN  IF ~a.ok
            THEN [a.x EXCEPT !.w.state.file_name_size_buffer.position = a.position,
                             !.ret = IoErr("WouldBlock")]
        ELSE IF ~b.ok
            THEN [b.x EXCEPT !.w.state.file_name_size_buffer.position = a.position,
                             !.w.state.file_name_position = b.position,
                             !.ret = IoErr("WouldBlock")]
        ELSE IF ~c.ok
            THEN [c.x EXCEPT !.w.state.file_name_size_buffer.position = a.position,
                             !.w.state.file_name_position = b.position,
                             !.w.state.file_size_buffer.position = c.position,
                             !.ret = IoErr("WouldBlock")]
        ELSE [c.x EXCEPT !.w.buffer = <<>>,
                         !.w.state = [tag |-> "ReadEntryData", counter |-> 0,
                                      key |-> x.w.key, bytes_written |-> 0]]

\* State::ReadEntryData that fails only for a reader that yielded too little
IoWriter_entry_read_at_least(x, file_size, file_data, chunk) ==
    LET st == x.w.state
        n == Min(Min(chunk, BUFFER_SIZE), Len(file_data) - x.dpos)
        d == decrypt_entry_bytes(Slice(file_data, x.dpos, n), st.key, st.counter)
    IN  IF n = 0
            THEN IF file_size > st.bytes_written
                 THEN [x EXCEPT !.ret = Err([kind |-> "FileDataSizeMismatch",
                                             actual |-> st.bytes_written,
                                             expected |-> file_size])]
                 ELSE [x EXCEPT !.w.state = [tag |-> "WriteEntryStart"], !.ret = Ok("unit")]
        ELSE [x EXCEPT !.dpos = @ + n,
                       !.w.buffer = d.buffer,
                       !.w.state = [tag |-> "WriteEntryData", counter |-> d.counter,
                                    key |-> d.key, bytes_written |-> st.bytes_written + n,
                                    position |-> 0, buffer_size |-> n]]

\* State::ReadEntryData of write_entry: the data reader yields up to `chunk` bytes
IoWriter_entry_read(x, file_size, file_data, chunk) ==
    LET st == x.w.state
        n == Min(Min(chunk, BUFFER_SIZE), Len(file_data) - x.dpos)
        d == decrypt_entry_bytes(Slice(file_data, x.dpos, n), st.key, st.counter)
    IN  IF n = 0
            THEN IF file_size # st.bytes_written
                 THEN [x EXCEPT !.ret = Err([kind |-> "FileDataSizeMismatch",
                                             actual |-> st.bytes_written,
                                             expected |-> file_size])]
                 ELSE [x EXCEPT !.w.state = [tag |-> "WriteEntryStart"], !.ret = Ok("unit")]
        ELSE [x EXCEPT !.dpos = @ + n,
                       !.w.buffer = d.buffer,
                       !.w.state = [tag |-> "WriteEntryData", counter |-> d.counter,
                                    key |-> d.key, bytes_written |-> st.bytes_written + n,
                                    position |-> 0, buffer_size |-> n]]

\* State::WriteEntryData of write_entry
IoWriter_entry_write(x) ==
    LET st == x.w.state
        v == std_write_all(x, SubSeq(x.w.buffer, st.position + 1, st.buffer_size))
    IN  IF v.ok THEN [v.x EXCEPT !.w.state = [tag |-> "ReadEntryData", counter |-> st.counter,
                                              key |-> st.key,
                                              bytes_written |-> st.bytes_written]]
        ELSE [v.x EXCEPT !.ret = IoErr("WouldBlock")]

\* one turn of the loop of write_entry
IoWriter_write_entry_turn(x, file_name, file_size, file_data, chunk) ==
    LET tag == x.w.state.tag
    IN  IF tag = "WriteEntryStart" THEN IoWriter_entry_start(x, file_name, file_size)
        ELSE IF tag = "WriteEntry" THEN IoWriter_entry_header(x)
        ELSE IF tag = "ReadEntryData" THEN IoWriter_entry_read(x, file_size, file_data, chunk)
        ELSE IF tag = "WriteEntryData" THEN IoWriter_entry_write(x)
        ELSE [x EXCEPT !.ret = Err([kind |-> "InvalidState"])]

RECURSIVE IoWriter_write_entry_loop(_, _, _, _, _)
\* each turn works on the value the turn before left
IoWriter_write_entry_loop(x, file_name, file_size, file_data, chunk) ==
    CHOOSE r \in { IF y.ret = Continue
                   THEN IoWriter_write_entry_loop(
                            IoWriter_write_entry_turn(y, file_name, file_size, file_data, chunk),
                            file_name, file_size, file_data, chunk)
                   ELSE y : y \in {x} } : TRUE

\* Writer::write_entry(file_name, file_size, file_data), the data reader at dpos
IoWriter_write_entry(w, file_name, file_size, file_data, dpos, chunk, fuel) ==
    IoWriter_write_entry_loop(Call(w, dpos, fuel), file_name, file_size, file_data, chunk)

----------------------------------------------------------------------------
(* The driver of the blocking Writer: write_header, then write_entry for each *)
(* of input.entries with its declared size and a reader over its data, each   *)
(* call repeated with the same arguments and the same reader while it fails;  *)
(* finish at any time                                                         *)

\* an entry, the size declared for it, and the data its reader yields
SizedEntry(name, size, data) == [name |-> name, size |-> size, data |-> data]

SizedKinds ==
    { SizedEntry(<<>>, 0, <<>>), SizedEntry(<<65>>, 1, <<7>>),
      SizedEntry(<<97, 98>>, 5, <<1, 2, 3, 4, 250>>),
      SizedEntry(<<66>>, 1, <<>>), SizedEntry(<<67>>, 1, <<200, 100>>),
      SizedEntry(<<68>>, 0, <<9>>) }

SizedLists == SeqsUpTo(SizedKinds, MaxEntries)

RECURSIVE IoWriter_run(_, _, _)
\* write_entry for each of the entries, the transport accepting everything and each
\* reader yielding all its data at once, up to the first call that fails
IoWriter_run(w, entries, written) ==
    IF entries = <<>> THEN [w |-> w, out |-> written]
    ELSE LET e == Head(entries)
             x == IoWriter_write_entry(w, e.name, e.size, e.data, 0, BUFFER_SIZE, BUFFER_SIZE)
         IN  IF x.ret.type = "Ok" THEN IoWriter_run(x.w, Tail(entries), written \o x.out)
             ELSE [w |-> x.w, out |-> written \o x.out]

\* the bytes the transport receives from an uninterrupted writer
IoEncode1(entries) ==
    LET h == IoWriter_write_header(IoWriter_new, BUFFER_SIZE)
    IN  IoWriter_run(h.w, entries, h.out).out

IoWriterInputs ==
    { [entries |-> entries, expected |-> IoEncode1(entries), idx |-> 0, dpos |-> 0] :
          entries \in SizedLists }

IoWriterInit ==
    /\ mode = "IoWriter"
    /\ stream = <<>> /\ tpos = 0
    /\ wr = IoWriter_new /\ rd = Idle /\ wr3 = Idle /\ rd3 = Idle /\ brd = Idle
    /\ op = "new" /\ ret = NoRet /\ log = <<>> /\ ciph = Idle
    /\ input \in IoWriterInputs

\* the fuel of one call: none, a few bytes, or all a call can need
WriteFuels == (0..MaxChunk) \cup {BUFFER_SIZE}

\* the driver goes on while the transport has received what was to be written so far:
\* a run is followed up to the first byte that differs
Receiving == IsPrefix(stream, input.expected)

IW_WriteHeader(fuel) ==
    /\ mode = "IoWriter" /\ Receiving
    /\ LET x == IoWriter_write_header(wr, fuel)
       IN  wr' = x.w /\ stream' = stream \o x.out /\ ret' = x.ret
    /\ op' = "write_header"
    /\ UNCHANGED <<mode, tpos, rd, wr3, rd3, brd, log, input, ciph>>

\* write_entry for the next entry; it is the next entry's turn once this call returns Ok
IW_WriteEntry(chunk, fuel) ==
    /\ mode = "IoWriter" /\ Receiving
    /\ input.idx < Len(input.entries)
    /\ op = "write_entry" /\ ret.type = "Err" => ret.error.kind = "WouldBlock"
    /\ LET e == input.entries[input.idx + 1]
           x == IoWriter_write_entry(wr, e.name, e.size, e.data, input.dpos, chunk, fuel)
       IN  /\ wr' = x.w /\ stream' = stream \o x.out /\ ret' = x.ret
           /\ input' = IF x.ret.type = "Ok" THEN [input EXCEPT !.idx = @ + 1, !.dpos = 0]
                       ELSE [input EXCEPT !.dpos = x.dpos]
    /\ op' = "write_entry"
    /\ UNCHANGED <<mode, tpos, rd, wr3, rd3, brd, log, ciph>>

IW_Finish(flushed) ==
    /\ mode = "IoWriter"
    /\ ret' = IoWriter_finish(wr, flushed)
    /\ op' = "finish"
    /\ UNCHANGED <<mode, stream, tpos, wr, rd, wr3, rd3, brd, log, input, ciph>>

IoWriterNext ==
    \/ \E fuel \in WriteFuels : IW_WriteHeader(fuel)
    \/ \E chunk \in (1..MaxChunk) \cup {BUFFER_SIZE}, fuel \in WriteFuels :
           IW_WriteEntry(chunk, fuel)
    \/ \E flushed \in BOOLEAN : IW_Finish(flushed)

SpecIoWriter == IoWriterInit /\ [][IoWriterNext]_vars

RECURSIVE NameWords(_, _)
\* the key rotations of the headers of the first n entries
NameWords(entries, n) ==
    IF n = 0 THEN 0 ELSE Len(entries[n].name) + 2 + NameWords(entries, n - 1)

\* C21: write_entry repeated with the same arguments and the same data reader after
\* transient failures, also ones after the transport accepted a part of the bytes,
\* gives the transport the bytes of an uninterrupted write: none dropped, none twice;
\* and the rotating key advances once per entry.
C21_RetrySafe ==
    mode = "IoWriter" =>
        /\ IsPrefix(stream, input.expected)
        /\ wr.state.tag = "WriteEntryStart" =>
               wr.key = RotateN(DEFAULT_KEY, NameWords(input.entries, input.idx))

\* the entry the last write_entry was called for
WrittenEntry ==
    input.entries[IF ret.type = "Ok" THEN input.idx ELSE input.idx + 1]

\* C22: write_entry(name, file_size, data) returns Ok, the writer between entries again,
\* only if the data reader yielded exactly file_size bytes before its end; with any
\* other total t it fails with FileDataSizeMismatch {actual: t, expected: file_size}
\* (before the archive header is written it fails with InvalidState instead).
C22_SizeChecked ==
    mode = "IoWriter" =>
        /\ op = "write_entry" /\ ret.type = "Ok" =>
               /\ Len(WrittenEntry.data) = WrittenEntry.size
               /\ wr.state.tag = "WriteEntryStart"
        /\ op = "write_entry" /\ ret.type = "Err" /\ ret.error.kind = "InvalidState" =>
               wr.state.tag \in {"WriteMagic", "WriteVersion"}
        /\ op = "write_entry" /\ ret.type = "Err"
           /\ ret.error.kind \notin {"WouldBlock", "InvalidState"} =>
               /\ Len(WrittenEntry.data) # WrittenEntry.size
               /\ ret.error = [kind |-> "FileDataSizeMismatch",
                               actual |-> Len(WrittenEntry.data),
                               expected |-> WrittenEntry.size]
        /\ input.idx < Len(input.entries) /\ wr.state.tag = "ReadEntryData"
           /\ input.dpos = Len(input.entries[input.idx + 1].data) =>
               \A chunk \in 1..MaxChunk, fuel \in WriteFuels :
                   LET e == input.entries[input.idx + 1]
                       x == IoWriter_write_entry(wr, e.name, e.size, e.data, input.dpos,
                                                 chunk, fuel)
                   IN  IF Len(e.data) = e.size
                       THEN x.ret = Ok("unit") /\ x.w.state.tag = "WriteEntryStart"
                            /\ x.out = <<>>
                       ELSE /\ x.ret = Err([kind |-> "FileDataSizeMismatch",
                                            actual |-> Len(e.data), expected |-> e.size])
                            /\ x.w = wr /\ x.out = <<>>

\* a write_entry has failed for a reader that yielded more than the declared size
C22_Witness ==
    /\ mode = "IoWriter" /\ op = "write_entry" /\ ret.type = "Err"
    /\ ret.error.kind = "FileDataSizeMismatch"
    /\ ret.error.actual = 2 /\ ret.error.expected = 1

----------------------------------------------------------------------------
(* sans_io::Writer with its steps called in any order: file headers with any  *)
(* declared size, data in any amounts, whatever the declared size was.        *)
(* input.size is the size declared by the last file header, input.total the   *)
(* data bytes given since, input.count the file headers staged, log the step  *)
(* called first.  A panic ends the run.                                       *)

WriterStepsInit ==
    /\ mode = "WriterSteps"
    /\ stream = <<>> /\ tpos = 0
    /\ wr = Writer_new /\ rd = Idle /\ wr3 = Idle /\ rd3 = Idle /\ brd = Idle
    /\ op = "new" /\ ret = NoRet /\ log = <<>> /\ ciph = Idle
    /\ input = [size |-> 0, total |-> 0, count |-> 0]

\* log keeps the name of the step that was called first
FirstStep(name) == IF log = <<>> THEN <<name>> ELSE log

WS_StepWriteHeader ==
    /\ mode = "WriterSteps" /\ ret.type # "Panic"
    /\ LET res == Writer_step_write_header(wr)
       IN  wr' = res.w /\ ret' = res.ret
    /\ op' = "step_write_header" /\ log' = FirstStep("step_write_header")
    /\ UNCHANGED <<mode, stream, tpos, rd, wr3, rd3, brd, input, ciph>>

WS_StepWriteFileHeader(name, size) ==
    /\ mode = "WriterSteps" /\ ret.type # "Panic"
    /\ input.count < MaxEntries
    /\ LET res == Writer_step_write_file_header(wr, name, size)
       IN  /\ wr' = res.w /\ ret' = res.ret
           /\ input' = IF res.ret.type = "Done" /\ res.w.buffer # wr.buffer
                       THEN [size |-> size, total |-> 0, count |-> input.count + 1]
                       ELSE input
    /\ op' = "step_write_file_header" /\ log' = FirstStep("step_write_file_header")
    /\ UNCHANGED <<mode, stream, tpos, rd, wr3, rd3, brd, ciph>>

\* the caller puts n bytes into space() and passes n
WS_StepWriteFileData(n) ==
    /\ mode = "WriterSteps" /\ ret.type # "Panic"
    /\ LET res == Writer_step_write_file_data(wr, [i \in 1..n |-> (input.total + i) % 256])
       IN  /\ wr' = res.w /\ ret' = res.ret
           /\ input' = IF res.ret.type \in {"Done", "Panic"} /\ wr.state.tag = "FileData"
                       THEN [input EXCEPT !.total = @ + n]
                       ELSE input
    /\ op' = "step_write_file_data" /\ log' = FirstStep("step_write_file_data")
    /\ UNCHANGED <<mode, stream, tpos, rd, wr3, rd3, brd, ciph>>

WS_Write(n) ==
    /\ mode = "WriterSteps" /\ ret.type # "Panic"
    /\ n >= 1 /\ n <= Len(wr.buffer)
    /\ stream' = stream \o SubSeq(wr.buffer, 1, n)
    /\ wr' = Writer_consume(wr, n)
    /\ op' = "consume" /\ ret' = NoRet
    /\ UNCHANGED <<mode, tpos, rd, wr3, rd3, brd, log, input, ciph>>

WriterStepsNext ==
    \/ WS_StepWriteHeader
    \/ \E name \in {<<>>, <<65>>}, size \in 0..MaxChunk : WS_StepWriteFileHeader(name, size)
    \/ \E n \in 0..(MaxChunk + 1) : WS_StepWriteFileData(n)
    \/ WS_Write(1)
    \/ WS_Write(Len(wr.buffer))

SpecWriterSteps == WriterStepsInit /\ [][WriterStepsNext]_vars

\* C23: the sans-IO Writer reports FileDataSizeMismatch whenever the data given for an
\* entry differs from the size s its header declared: on the step_write_file_data that
\* makes the total exceed s, and on the step_write_file_header for the next entry
\* while fewer than s bytes were given; it never panics and accepts no wrong total.
C23_ByteAccounting ==
    mode = "WriterSteps" =>
        /\ input.count >= 1 /\ input.total # input.size => ret.type # "Panic"
        /\ input.total <= input.size
        /\ op = "step_write_file_header" /\ wr.state.tag = "FileData"
           /\ input.total < input.size /\ ret.type # "Done" =>
               ret.type = "Err" /\ ret.error.kind = "FileDataSizeMismatch"

\* the blocking Writer is inside write_entry's work on an entry
EntryInProgress == wr.state.tag \in {"WriteEntry", "ReadEntryData", "WriteEntryData"}

\* C24: finish fails with InvalidState whenever the writer is in the middle of an entry,
\* and succeeds, flushing the transport (unless the flush itself fails), whenever no
\* entry is in progress.
C24_FinishBetweenEntries ==
    mode = "IoWriter" /\ op = "finish" =>
        /\ EntryInProgress => ret = Err([kind |-> "InvalidState"])
        /\ ~EntryInProgress => ret \in {Ok("unit"), IoErr("WouldBlock")}

\* the archive header of format 1
Header1 == MAGIC \o <<VERSION>>

\* C25: the archive header is staged exactly once: the first 8 bytes the Writer stages
\* are the magic and the version 1, whichever step is called first; step_write_header
\* returns Write and stages nothing while fewer than 8 bytes of space are free; once
\* the header is staged, step_write_header returns Done(()) and stages nothing.
C25_HeaderOnce ==
    mode = "WriterSteps" =>
        LET r == Writer_step_write_header(wr)
            staged == stream \o wr.buffer
        IN  /\ wr.state.tag = "Header" <=> log = <<>>
            /\ wr.state.tag = "Header" => staged = <<>>
            /\ wr.state.tag # "Header" =>
                   /\ Len(staged) >= HEADER_LEN /\ SubSeq(staged, 1, HEADER_LEN) = Header1
                   /\ r.ret = Done("unit") /\ r.w = wr
            /\ wr.state.tag = "Header" /\ available_space(wr.buffer) < HEADER_LEN =>
                   r.ret = Write /\ r.w = wr
            /\ wr.state.tag = "Header" /\ available_space(wr.buffer) >= HEADER_LEN =>
                   /\ r.ret = Done("unit") /\ r.w.state.tag = "FileHeader"
                   /\ r.w.buffer = wr.buffer \o Header1 /\ r.w.key = wr.key

\* step_write_file_header was called first and staged the header; a step_write_header
\* after it has returned Done
C25_Witness ==
    /\ mode = "WriterSteps" /\ log = <<"step_write_file_header">>
    /\ op = "step_write_header" /\ ret = Done("unit")
    /\ Len(stream) = HEADER_LEN /\ Len(wr.buffer) > 0

----------------------------------------------------------------------------
(* sans_io::Writer3 with its operations called in any order: add_file at any  *)
(* time, step_write_file_data for any file index and with any number of       *)
(* bytes; up to MaxEntries files are added, or three with names so long that  *)
(* the table does not fit into the buffer at once.  A panic ends the run.     *)

\* a name of the greatest length add_file accepts
MaxName == [i \in 1..MAX_FILE_NAME_LEN_USIZE |-> 66]

\* a Writer3 after add_file for three files with names of the greatest length: their
\* records do not fit into the buffer together
FullTable3(key) ==
    LET a == Writer3_add_file(Writer3_new(key), MaxName, 1, FileKey3(0)).w
        b == Writer3_add_file(a, MaxName, 0, FileKey3(1)).w
    IN  Writer3_add_file(b, MaxName, 2, FileKey3(2)).w

Writer3StepsInit ==
    /\ mode = "Writer3Steps"
    /\ stream = <<>> /\ tpos = 0
    /\ wr = Idle /\ rd = Idle /\ rd3 = Idle /\ brd = Idle
    /\ op = "new" /\ ret = NoRet /\ log = <<>> /\ ciph = Idle /\ input = Idle
    /\ \/ \E key \in {<<12, 0, 0, 0>>, <<255, 202, 173, 222>>} : wr3 = Writer3_new(key)
       \/ wr3 = FullTable3(<<12, 0, 0, 0>>)

\* add_file may add a file: no table record is staged yet
Addable == wr3.state.tag = "Header" \/ (wr3.state.tag = "FileHeader" /\ wr3.state.index = 0)

W3S_AddFile(name, size) ==
    /\ mode = "Writer3Steps" /\ ret.type # "Panic"
    /\ Len(wr3.files) < MaxEntries \/ ~Addable
    /\ LET res == Writer3_add_file(wr3, name, size, FileKey3(Len(wr3.files)))
       IN  wr3' = res.w /\ ret' = res.ret
    /\ op' = "add_file"
    /\ UNCHANGED <<mode, stream, tpos, wr, rd, rd3, brd, log, input, ciph>>

W3S_StepWriteHeader ==
    /\ mode = "Writer3Steps" /\ ret.type # "Panic"
    /\ LET res == Writer3_step_write_header(wr3)
       IN  wr3' = res.w /\ ret' = res.ret
    /\ op' = "step_write_header"
    /\ UNCHANGED <<mode, stream, tpos, wr, rd, rd3, brd, log, input, ciph>>

W3S_StepWriteFileHeaders ==
    /\ mode = "Writer3Steps" /\ ret.type # "Panic"
    /\ LET res == Writer3_step_write_file_headers(wr3)
       IN  wr3' = res.w /\ ret' = res.ret
    /\ op' = "step_write_file_headers"
    /\ UNCHANGED <<mode, stream, tpos, wr, rd, rd3, brd, log, input, ciph>>

\* what the buffer's memory may hold where nothing was staged yet
MemBytes == {0, 255}

\* the bytes a caller puts into space() before step_write_file_data(_, n)
Filler(n) == [i \in 1..n |-> (7 * i) % 256]

\* the memory matters only to a call that stages the header and the table itself; such
\* a call is given data for archives of at most one file
W3S_StepWriteFileData(file_index, n, mem) ==
    /\ mode = "Writer3Steps" /\ ret.type # "Panic"
    /\ wr3.state.tag = "FileData" => mem = 0
    /\ wr3.state.tag # "FileData" /\ n > 0 => Len(wr3.files) <= 1
    /\ LET res == Writer3_step_write_file_data_placed(wr3, file_index, Filler(n), mem)
       IN  wr3' = res.w /\ ret' = res.ret
    /\ op' = "step_write_file_data"
    /\ UNCHANGED <<mode, stream, tpos, wr, rd, rd3, brd, log, input, ciph>>

\* the adapter writes the staged bytes to the transport and consumes them
W3S_Write ==
    /\ mode = "Writer3Steps" /\ ret.type # "Panic"
    /\ wr3.buffer # <<>>
    /\ stream' = stream \o wr3.buffer
    /\ wr3' = Writer3_consume(wr3, Len(wr3.buffer))
    /\ op' = "consume" /\ ret' = NoRet
    /\ UNCHANGED <<mode, tpos, wr, rd, rd3, brd, log, input, ciph>>

Writer3StepsNext ==
    \/ \E name \in {<<>>, <<65>>}, size \in 0..2 : W3S_AddFile(name, size)
    \/ W3S_StepWriteHeader
    \/ W3S_StepWriteFileHeaders
    \/ \E file_index \in 0..MaxEntries, n \in 0..3, mem \in MemBytes :
           W3S_StepWriteFileData(file_index, n, mem)
    \/ W3S_Write

SpecWriter3Steps == Writer3StepsInit /\ [][Writer3StepsNext]_vars

RECURSIVE TableLen(_, _)
\* the bytes of the table records of the first n files: 16 + l_j each
TableLen(files, n) ==
    IF n = 0 THEN 0 ELSE (4 * U32_LEN) + Len(files[n].name) + TableLen(files, n - 1)

\* the bytes staged so far, written to the transport or not
Staged3 == stream \o wr3.buffer

\* C26: add_file succeeds only before table writing has started (nothing but the archive
\* header staged); once a table record or the sentinel is staged it returns
\* InvalidState and leaves the file list and the data start position unchanged, so the
\* offsets in the table stay consistent with the final table length.
C26_AddFileBeforeTable ==
    mode = "Writer3Steps" =>
        /\ \A name \in {<<>>, <<65>>}, size \in 0..2 :
               LET r == Writer3_add_file(wr3, name, size, FileKey3(0))
               IN  IF Len(Staged3) > HEADER_LEN3
                   THEN r.ret = Err([kind |-> "InvalidState"]) /\ r.w = wr3
                   ELSE /\ r.ret.type = "Done"
                        /\ r.w.files = Append(wr3.files,
                                              [name |-> name, size |-> size, key |-> FileKey3(0)])
                        /\ r.w.data_position = wr3.data_position + (4 * U32_LEN) + Len(name)
                        /\ r.w.buffer = wr3.buffer /\ r.w.state = wr3.state
        /\ wr3.data_position
               = HEADER_LEN3 + TableLen(wr3.files, Len(wr3.files)) + (4 * U32_LEN)
        /\ op = "add_file" /\ ret.type = "Done" => Len(Staged3) <= HEADER_LEN3

\* add_file has returned InvalidState in the middle of the table: two records are
\* staged, the third and the sentinel are not
C26_Witness ==
    /\ mode = "Writer3Steps" /\ op = "add_file" /\ ret = Err([kind |-> "InvalidState"])
    /\ wr3.state.tag = "FileHeader" /\ wr3.state.index = 2 /\ Len(wr3.files) = 3

RECURSIVE SumSizes(_, _)
\* the sizes of the first n files
SumSizes(files, n) == IF n = 0 THEN 0 ELSE files[n].size + SumSizes(files, n - 1)

\* the table records staged so far
RecordsStaged ==
    IF wr3.state.tag = "Header" THEN 0
    ELSE IF wr3.state.tag = "FileHeader" THEN wr3.state.index
    ELSE Len(wr3.files)

\* the offset of the data of file i (0-based): the archive header, the table of all
\* registered files, the sentinel, and the data of the files before it
DataOffset3(i) ==
    HEADER_LEN3 + TableLen(wr3.files, Len(wr3.files)) + (4 * U32_LEN) + SumSizes(wr3.files, i)

\* field n (0-based) of the record staged for file i, XORed with the archive key
RecordField(i, n) ==
    U32Xor(Slice(Staged3, HEADER_LEN3 + TableLen(wr3.files, i) + (n * U32_LEN), U32_LEN),
           wr3.key)

\* C27: the record staged for file i decrypts, XORed with the archive key, to
\* offset = 12 + sum_j (16 + l_j) + 16 + sum_{j<i} s_j, size = s_i, key = the file's key,
\* name_len = l_i; and the offset is the position in the emitted stream at which the
\* first data byte of file i is staged.
C27_TableOffsets ==
    mode = "Writer3Steps" =>
        /\ \A i \in 0..(RecordsStaged - 1) :
               LET f == wr3.files[i + 1]
               IN  /\ RecordField(i, 0) = U32(DataOffset3(i))
                   /\ RecordField(i, 1) = U32(f.size)
                   /\ RecordField(i, 2) = f.key
                   /\ RecordField(i, 3) = U32(Len(f.name))
                   /\ Slice(Staged3, HEADER_LEN3 + TableLen(wr3.files, i) + (4 * U32_LEN),
                            Len(f.name)) = crypt_name_bytes3(wr3.key, f.name)
        /\ wr3.state.tag = "FileData" /\ wr3.state.index < Len(wr3.files) =>
               Len(Staged3) = DataOffset3(wr3.state.index)
                                  + (wr3.files[wr3.state.index + 1].size - wr3.state.remaining)

\* the data of the first of two files is staged and the second file's data, two bytes,
\* is about to start
C27_Witness ==
    /\ mode = "Writer3Steps" /\ op = "step_write_file_data" /\ ret.type = "Done"
    /\ wr3.state.tag = "FileData" /\ Len(wr3.files) = 2 /\ wr3.state.index = 1
    /\ wr3.files[1].size = 1 /\ wr3.files[2].size = 2 /\ wr3.state.remaining = 2
    /\ wr3.files[1].name = <<65>>

RECURSIVE ReadTable3(_, _)
\* what n calls of Reader3::step_read_file_header return, one after the other
ReadTable3(r, n) ==
    IF n = 0 THEN <<>>
    ELSE CHOOSE s \in { <<x.ret>> \o ReadTable3(x.r, n - 1) :
                            x \in {Reader3_step_read_file_header(r)} } : TRUE

\* the position of the sentinel: behind the archive header and the records of all files
SentinelAt == HEADER_LEN3 + TableLen(wr3.files, Len(wr3.files))

C29_WroteTooLittle ==
    mode = "Writer3Steps" =>
        /\ wr3.state.tag = "FileData" /\ wr3.state.index < Len(wr3.files)
           /\ wr3.state.remaining > 0 =>
               \A n \in 0..3 :
                   LET size == wr3.files[wr3.state.index + 1].size
                       r == Writer3_step_write_file_data(wr3, wr3.state.index + 1, Filler(n))
                   IN  /\ r.ret = Err([kind |-> "FileDataSizeMismatch",
                                       actual |-> size - wr3.state.remaining,
                                       expected |-> size])
                       /\ r.w = wr3
        /\ op = "step_write_file_data" /\ ret.type = "Err"
           /\ ret.error.kind = "FileDataSizeMismatch" /\ ret.error.actual < ret.error.expected =>
               /\ wr3.state.tag = "FileData" /\ wr3.state.index < Len(wr3.files)
               /\ ret.error.expected = wr3.files[wr3.state.index + 1].size
               /\ ret.error.actual = ret.error.expected - wr3.state.remaining

\* step_write_file_data for the second file has failed: the first has one of its two bytes
C29_Witness ==
    /\ mode = "Writer3Steps" /\ op = "step_write_file_data"
    /\ ret = Err([kind |-> "FileDataSizeMismatch", actual |-> 1, expected |-> 2])
    /\ wr3.state.tag = "FileData" /\ wr3.state.index = 0 /\ wr3.state.remaining = 1

\* C30: giving file i more data than its declared size, by step_write_file_data(i, n) with
\* n > 0 after file i has received all its bytes (for every i, the last registered
\* file included) or by one call with n greater than the remaining count, returns
\* FileDataSizeMismatch and stages none of the excess bytes.
C30_WroteTooMuch ==
    mode = "Writer3Steps" /\ wr3.state.tag = "FileData" =>
        /\ \A n \in 1..3 :
               wr3.state.index >= 1 =>
                   LET r == Writer3_step_write_file_data(wr3, wr3.state.index - 1, Filler(n))
                   IN  /\ r.ret.type = "Err" /\ r.ret.error.kind = "FileDataSizeMismatch"
                       /\ r.w = wr3
        /\ \A n \in 1..3 :
               wr3.state.index < Len(wr3.files) /\ n > wr3.state.remaining =>
                   LET r == Writer3_step_write_file_data(wr3, wr3.state.index, Filler(n))
                   IN  /\ r.ret.type = "Err" /\ r.ret.error.kind = "FileDataSizeMismatch"
                       /\ r.w = wr3

\* C31: in the file-data phase every step_write_file_data(file_index, n) whose file_index
\* differs from the expected index by more than one, in either direction, returns
\* InvalidState and changes nothing.
C31_IndexJump ==
    mode = "Writer3Steps" /\ wr3.state.tag = "FileData" =>
        \A file_index \in 0..(MaxEntries + 1), n \in 0..3 :
            file_index > wr3.state.index + 1 \/ file_index + 1 < wr3.state.index =>
                Writer3_step_write_file_data(wr3, file_index, Filler(n))
                    = [w |-> wr3, ret |-> Err([kind |-> "InvalidState"])]

\* C33: step_write_file_data(file_index, n) called with n plaintext bytes in space()
\* before the header and the table are written stages the header and the table and then
\* the encryption of exactly those n bytes; the automatic header write neither
\* overwrites them nor panics.
C33_CallerDataKept ==
    mode = "Writer3Steps" /\ wr3.state.tag # "FileData" /\ wr3.files # <<>> =>
        \A n \in 1..2, mem \in MemBytes :
            LET t == Writer3_step_write_file_headers(wr3)
                r == Writer3_step_write_file_data_placed(wr3, 0, Filler(n), mem)
                f == wr3.files[1]
            IN  t.ret.type = "Done" /\ n <= f.size =>
                    /\ r.ret = Done(n)
                    /\ r.w.buffer
                           = t.w.buffer \o crypt_file_data(f.key, 0, Filler(n)).buffer

\* C34: in every reachable state of the format-1 sans_io::Writer an entry with no bytes
\* remaining, an entry declared with size 0 included, leaves the writer in FileHeader, where
\* the next step_write_file_header is accepted; a completed entry never leaves the writer
\* in FileData.
C34_BackToFileHeader ==
    mode = "WriterSteps" /\ ret.type # "Panic" =>
        /\ wr.state.tag = "FileData" => wr.state.remaining > 0
        /\ input.count >= 1 /\ input.total = input.size =>
               \A name \in {<<>>, <<65>>} :
                   Writer_step_write_file_header(wr, name, 0).ret.type # "Panic"

----------------------------------------------------------------------------
\* The blocking adapter Writer3<W> (src/rgssad/src/writer3.rs) over a transport that
\* takes every byte it is offered.  An adapter a is [writer, state_machine, state, space]:
\* writer is what the transport received, space the bytes the last read left at the start
\* of state_machine.space().

IoWriter3_new(key) ==
    [writer |-> <<>>, state_machine |-> Writer3_new(key),
     state |-> [tag |-> "FileHeader"], space |-> <<>>]

\* let data = state_machine.data(); let n = writer.write(data)?; state_machine.consume(n)
IoWriter3_write_out(a) ==
    [a EXCEPT !.writer = @ \o a.state_machine.buffer,
              !.state_machine = Writer3_consume(@, Len(@.buffer))]

IoWriter3_write_header(a) ==
    LET r == Writer3_step_write_header(a.state_machine)
        r2 == Writer3_step_write_header(IoWriter3_write_out(a).state_machine)
    IN  IF r.ret.type = "Write"
        THEN [a |-> IoWriter3_write_out([IoWriter3_write_out(a)
                                             EXCEPT !.state_machine = r2.w]),
              ret |-> Ok("unit")]
        ELSE [a |-> IoWriter3_write_out([a EXCEPT !.state_machine = r.w]),
              ret |-> Ok("unit")]

IoWriter3_add_file(a, name, size, key) ==
    LET r == Writer3_add_file(a.state_machine, name, size, key)
    IN  [a |-> [a EXCEPT !.state_machine = r.w],
         ret |-> IF r.ret.type = "Done" THEN Ok("unit") ELSE r.ret]

RECURSIVE IoWriter3_write_file_headers(_)
IoWriter3_write_file_headers(a) ==
    CHOOSE res \in {
        IF r.ret.type = "Write"
        THEN IoWriter3_write_file_headers(
                 IoWriter3_write_out([a EXCEPT !.state_machine = r.w]))
        ELSE IF r.ret.type = "Done"
        THEN [a |-> [IoWriter3_write_out([a EXCEPT !.state_machine = r.w])
                         EXCEPT !.state = [tag |-> "FileData", size |-> 0, is_new |-> TRUE]],
              ret |-> Ok("unit")]
        ELSE [a |-> [a EXCEPT !.state_machine = r.w], ret |-> r.ret] :
        r \in {Writer3_step_write_file_headers(a.state_machine)} } : TRUE

\* one turn of the loop of write_file_data(file_index, file_data); n is the number of
\* bytes the reader gives to a read in this turn (0 at its end)
IoWriter3_write_file_data_turn(a, file_index, file_data, n) ==
    LET a1 == [a EXCEPT !.state.is_new = FALSE]
        a2 == IF available_space(a1.state_machine.buffer) = 0
              THEN IoWriter3_write_out(a1) ELSE a1
    IN  CASE a.state.tag = "FileHeader" ->
                 CHOOSE res \in {
                     [a |-> hs.a, file_data |-> file_data,
                      ret |-> IF hs.ret.type = "Ok" THEN Continue ELSE hs.ret] :
                     hs \in {IoWriter3_write_file_headers(a)} } : TRUE
          [] a.state.tag = "FileData" /\ a.state.size = 0 /\ n = 0 ->
                 [a |-> [a2 EXCEPT !.state = [tag |-> "Flush"]], file_data |-> file_data,
                  ret |-> Continue]
          [] a.state.tag = "FileData" /\ a.state.size = 0 /\ n # 0 ->
                 [a |-> [a2 EXCEPT !.state.size = n, !.space = SubSeq(file_data, 1, n)],
                  file_data |-> SubSeq(file_data, n + 1, Len(file_data)),
                  ret |-> Continue]
          [] a.state.tag = "FileData" /\ a.state.size # 0 ->
                 CHOOSE res \in {
                     IF r.ret.type = "Write"
                     THEN [a |-> IoWriter3_write_out([a1 EXCEPT !.state_machine = r.w]),
                           file_data |-> file_data, ret |-> Continue]
                     ELSE IF r.ret.type = "Done"
                     THEN [a |-> [a1 EXCEPT !.state_machine = r.w,
                                            !.state.size = @ - r.ret.value,
                                            !.space = SubSeq(@, r.ret.value + 1, Len(@))],
                           file_data |-> file_data, ret |-> Continue]
                     ELSE [a |-> [a1 EXCEPT !.state_machine = r.w],
                           file_data |-> file_data, ret |-> r.ret] :
                     r \in {Writer3_step_write_file_data(
                                a1.state_machine, file_index,
                                SubSeq(a1.space, 1, a1.state.size))} } : TRUE
          [] a.state.tag = "Flush" ->
                 [a |-> [IoWriter3_write_out(a)
                             EXCEPT !.state = [tag |-> "FileData", size |-> 0,
                                               is_new |-> TRUE]],
                  file_data |-> file_data, ret |-> Ok("unit")]

IoWriter3_finish(a) ==
    IF \/ a.state.tag = "FileHeader"
       \/ a.state.tag = "FileData" /\ a.state.size = 0 /\ a.state.is_new
    THEN Ok("unit")
    ELSE Err([kind |-> "InvalidState"])

\* The adapter's calls in any order.  wr3 is the state machine, wr the adapter's state
\* and space, stream the transport; input is the running write_file_data call, turn the
\* parity of the turns its loop has taken.
NoCall == [file_index |-> 0, file_data |-> <<>>, running |-> FALSE, turn |-> 0]

IoWriter3Init ==
    /\ mode = "IoWriter3"
    /\ stream = <<>> /\ tpos = 0
    /\ wr = [state |-> [tag |-> "FileHeader"], space |-> <<>>]
    /\ wr3 = Writer3_new(<<12, 0, 0, 0>>)
    /\ rd = Idle /\ rd3 = Idle /\ brd = Idle
    /\ op = "new" /\ ret = NoRet /\ log = <<>> /\ ciph = Idle /\ input = NoCall

Adapter3 == [writer |-> stream, state_machine |-> wr3, state |-> wr.state, space |-> wr.space]

SetAdapter3(a) ==
    /\ stream' = a.writer
    /\ wr3' = a.state_machine
    /\ wr' = [state |-> a.state, space |-> a.space]

IW3_WriteHeader ==
    /\ mode = "IoWriter3" /\ ~input.running /\ ret.type # "Panic"
    /\ \E res \in {IoWriter3_write_header(Adapter3)} :
           SetAdapter3(res.a) /\ ret' = res.ret
    /\ op' = "write_header"
    /\ UNCHANGED <<mode, tpos, rd, rd3, brd, log, input, ciph>>

IW3_AddFile(name, size) ==
    /\ mode = "IoWriter3" /\ ~input.running /\ ret.type # "Panic"
    /\ Len(wr3.files) < MaxEntries \/ ~Addable
    /\ \E res \in {IoWriter3_add_file(Adapter3, name, size, FileKey3(Len(wr3.files)))} :
           SetAdapter3(res.a) /\ ret' = res.ret
    /\ op' = "add_file"
    /\ UNCHANGED <<mode, tpos, rd, rd3, brd, log, input, ciph>>

IW3_WriteFileHeaders ==
    /\ mode = "IoWriter3" /\ ~input.running /\ ret.type # "Panic"
    /\ \E res \in {IoWriter3_write_file_headers(Adapter3)} :
           SetAdapter3(res.a) /\ ret' = res.ret
    /\ op' = "write_file_headers"
    /\ UNCHANGED <<mode, tpos, rd, rd3, brd, log, input, ciph>>

\* write_file_data(file_index, file_data) is entered with a reader of len bytes
IW3_WriteFileData(file_index, len) ==
    /\ mode = "IoWriter3" /\ ~input.running /\ ret.type # "Panic"
    /\ input' = [file_index |-> file_index, file_data |-> Filler(len), running |-> TRUE,
                 turn |-> 0]
    /\ op' = "write_file_data" /\ ret' = Continue
    /\ UNCHANGED <<mode, stream, tpos, wr, rd, wr3, rd3, brd, log, ciph>>

\* one turn of its loop; a read returns between one byte and MaxChunk bytes of what the
\* reader has left
IW3_Turn(n) ==
    /\ mode = "IoWriter3" /\ input.running
    /\ IF input.file_data = <<>> THEN n = 0 ELSE n \in 1..Min(MaxChunk, Len(input.file_data))
    /\ \E res \in {IoWriter3_write_file_data_turn(Adapter3, input.file_index,
                                                   input.file_data, n)} :
           /\ SetAdapter3(res.a) /\ ret' = res.ret
           /\ input' = IF res.ret = Continue
                       THEN [input EXCEPT !.file_data = res.file_data, !.turn = 1 - @]
                       ELSE NoCall
    /\ op' = "write_file_data"
    /\ UNCHANGED <<mode, tpos, rd, rd3, brd, log, ciph>>

IW3_Finish ==
    /\ mode = "IoWriter3" /\ ~input.running /\ ret.type # "Panic"
    /\ ret' = IoWriter3_finish(Adapter3)
    /\ op' = "finish"
    /\ UNCHANGED <<mode, stream, tpos, wr, rd, wr3, rd3, brd, log, input, ciph>>

IoWriter3Next ==
    \/ IW3_WriteHeader
    \/ \E size \in 0..2 : IW3_AddFile(<<65>>, size)
    \/ IW3_WriteFileHeaders
    \/ \E file_index \in 0..MaxEntries, len \in 0..3 : IW3_WriteFileData(file_index, len)
    \/ \E n \in 0..MaxChunk : IW3_Turn(n)
    \/ IW3_Finish

SpecIoWriter3 == IoWriter3Init /\ [][IoWriter3Next]_vars

\* every byte of every registered file has been handed to the state machine
AllDataWritten ==
    /\ wr3.state.tag = "FileData"
    /\ Len(Staged3) = wr3.data_position + SumSizes(wr3.files, Len(wr3.files))

\* C32: the blocking Writer3::finish() succeeds only if nothing of the table has been
\* written yet or all data of every registered file is written; in every other state,
\* such as after the table and before every file has its full size, it returns InvalidState.
C32_FinishComplete ==
    mode = "IoWriter3" /\ op = "finish" =>
        IF wr3.state.tag \in {"Header", "FileHeader"} \/ AllDataWritten
        THEN ret = Ok("unit")
        ELSE ret = Err([kind |-> "InvalidState"])

\* C37: with a transport that takes every byte, the blocking Writer3::write_file_data
\* returns after finitely many turns for every registered file index and every finite
\* reader, one that yields more bytes than declared included; it never loops without
\* progress: every turn after which the call still runs has written, staged or read
\* something.
C37_WriteFileDataReturns ==
    [][mode = "IoWriter3" /\ input.running /\ input.file_index < Len(wr3.files)
           /\ input'.running =>
               <<stream, wr, wr3, input.file_data>>' # <<stream, wr, wr3, input.file_data>>
      ]_vars

\* C38: whenever write_file_data fails with FileDataSizeMismatch {actual, expected}, actual
\* differs from expected; an empty file that received no data causes no mismatch when the
\* caller moves on to the next index.
C38_MismatchSound ==
    mode = "IoWriter3" /\ ret.type = "Err" /\ ret.error.kind = "FileDataSizeMismatch" =>
        ret.error.actual # ret.error.expected

----------------------------------------------------------------------------
\* rgssad-cli unpack: construct_out_path (src/rgssad-cli/src/commands/unpack.rs).  A path
\* is the sequence of components Path::components() yields; a Normal component carries
\* what parsing it again as a path finds in it (a prefix such as "C:" on Windows, a root).

MaxPath == 3

Normal(name, has_prefix, has_root) ==
    [kind |-> "Normal", name |-> name, has_prefix |-> has_prefix, has_root |-> has_root]

PathComponent ==
    {[kind |-> "Prefix"], [kind |-> "RootDir"], [kind |-> "CurDir"], [kind |-> "ParentDir"],
     Normal("a", FALSE, FALSE), Normal("b", FALSE, FALSE), Normal("C:", TRUE, FALSE),
     Normal("r", FALSE, TRUE)}

Bail(message) == Err([kind |-> "anyhow", message |-> message])

\* PathBuf::push: an absolute path or one with a prefix replaces the buffer
PathBuf_push(out_path, path) ==
    IF path.has_prefix \/ path.has_root THEN <<path.name>> ELSE Append(out_path, path.name)

\* the loop over file_path.components(), from component i on
RECURSIVE construct_out_path_loop(_, _, _, _)
construct_out_path_loop(out_path, depth, file_path, i) ==
    IF i > Len(file_path) THEN Ok(out_path)
    ELSE LET component == file_path[i]
         IN  CASE component.kind = "Prefix" -> Bail("encountered prefix in path")
               [] component.kind = "RootDir" -> Bail("encountered root dir in path")
               [] component.kind = "CurDir" ->
                      construct_out_path_loop(out_path, depth, file_path, i + 1)
               [] component.kind = "ParentDir" ->
                      IF depth = 0 THEN Bail("path goes above out path")
                      ELSE construct_out_path_loop(out_path, depth - 1, file_path, i + 1)
               [] component.kind = "Normal" ->
                      IF component.has_prefix THEN Bail("path component has prefix")
                      ELSE IF component.has_root THEN Bail("path component has root")
                      ELSE construct_out_path_loop(PathBuf_push(out_path, component),
                                                   depth + 1, file_path, i + 1)

\* out_dir.join(file_path) with no component looked at
construct_out_path_join(out_dir, file_path) ==
    Ok(out_dir \o [j \in 1..Len(file_path) |->
                       IF file_path[j].kind = "Normal" THEN file_path[j].name
                       ELSE file_path[j].kind])

construct_out_path(out_dir, file_path) == construct_out_path_loop(out_dir, 0, file_path, 1)

OutPathInit ==
    /\ mode = "OutPath"
    /\ stream = <<>> /\ tpos = 0
    /\ wr = Idle /\ wr3 = Idle /\ rd = Idle /\ rd3 = Idle /\ brd = Idle
    /\ op = "new" /\ ret = NoRet /\ log = <<>> /\ ciph = Idle
    /\ \E out_dir \in {<<"out">>, <<"out", "x">>}, file_path \in SeqsUpTo(PathComponent, MaxPath) :
           input = [out_dir |-> out_dir, file_path |-> file_path]

OP_ConstructOutPath ==
    /\ mode = "OutPath" /\ op = "new"
    /\ ret' = construct_out_path(input.out_dir, input.file_path)
    /\ op' = "construct_out_path"
    /\ UNCHANGED <<mode, stream, tpos, wr, rd, wr3, rd3, brd, log, input, ciph>>

SpecOutPath == OutPathInit /\ [][OP_ConstructOutPath]_vars

Kinds(p, k, kind) == Cardinality({j \in 1..k : p[j].kind = kind})

\* some ParentDir of p has no Normal component before it left to climb out of
GoesAbove(p) == \E k \in 1..Len(p) : Kinds(p, k, "ParentDir") > Kinds(p, k, "Normal")

IsNormalKind(c) == c.kind = "Normal"

NormalNames(p) == LET q == SelectSeq(p, IsNormalKind) IN [j \in 1..Len(q) |-> q[j].name]

\* C36: for every sequence of path components construct_out_path either fails or returns
\* out_dir extended by Normal components only; it fails on any Prefix or RootDir and on
\* any ParentDir that would go above out_dir.
C36_OutPathInside ==
    mode = "OutPath" /\ op = "construct_out_path" =>
        LET p == input.file_path
        IN  /\ ret.type \in {"Ok", "Err"}
            /\ ret.type = "Ok" =>
                   /\ ret.value = input.out_dir \o NormalNames(p)
                   /\ \A j \in 1..Len(p) : p[j].kind \in {"CurDir", "ParentDir", "Normal"}
                   /\ ~GoesAbove(p)
            /\ (\E j \in 1..Len(p) : p[j].kind \in {"Prefix", "RootDir"}) \/ GoesAbove(p) =>
                   ret.type = "Err"

\* a path with a ParentDir below out_dir and Normal components is accepted
C36_Witness ==
    /\ mode = "OutPath" /\ op = "construct_out_path" /\ ret.type = "Ok"
    /\ Kinds(input.file_path, Len(input.file_path), "ParentDir") >= 1
    /\ Kinds(input.file_path, Len(input.file_path), "Normal") >= 2

\* C39: in FileData the format-1 Reader has position + remaining = next_file_position, so
\* after any sequence of step_read_file_header, step_read_file_data and finish_seek
\* (finish_seek only in answer to a Seek) every byte step_read_file_data returns lies
\* in the data region of the file header returned last.
C39_DataRegion ==
    mode = "Reader" /\ rd.state.tag = "FileData" =>
        rd.position + rd.state.remaining = rd.next_file_position

\* C40: after the blocking Reader::read_entry failed with InvalidFileName, every later
\* read_entry on the same reader returns an error as well, and no Entry is produced from
\* that record.
C40_InvalidFileNameFinal ==
    mode = "Blocking" =>
        \A i \in 1..Len(log) :
            log[i].kind = "InvalidFileName" =>
                /\ op = "read_entry" => ret.type = "Err"
                /\ \A j \in (i + 1)..Len(log) : log[j].kind # "file"

\* C35: under a driver that answers every request before it steps again (a Read with at
\* least one new byte while the archive has bytes left, a Seek with finish_seek), every
\* step on a well-formed archive returns Done or an error after finitely many steps, and
\* no step repeats the same Read for ever: a step that returned Read finds bytes left in
\* the archive, or returns something else when it is called again.
C35_Progress ==
    mode = "ReaderLoop" /\ ret.type = "Read" =>
        \/ tpos < Len(stream)
        \/ op = "step_read_header" /\ Reader_step_read_header(rd).ret # ret
        \/ op = "step_read_file_header" /\ Reader_step_read_file_header(rd).ret # ret
        \/ op = "step_read_file_data"
               /\ \E n \in 1..MaxChunk : Reader_step_read_file_data(rd, n).ret # ret

====
